---- MODULE Spec2Model ----
(***************************************************************************)
(* A model of the cloud-release chat bot: the chat client (subscription    *)
(* dialog, subscription ledger, inverted index) and the feed pollers       *)
(* (blogs, GitHub releases, videos, release notes).                        *)
(***************************************************************************)
EXTENDS Integers, Sequences, FiniteSets, TLC

VARIABLES
    record,      \* product_space_subscriptions: space document key -> NoDoc or the record
    inv,         \* the four inverted collections: field -> item document key -> NoDoc or spaces_subscribed
    response,    \* what the last chat_app request returned
    lastReq,     \* the last chat_app request and what it issued (prior record, removals)
    requests,    \* how many chat_app requests have been handled
    webhook,     \* the last POST /messages: its envelope, the reply, the chat messages sent so far
    threads,     \* record_space_* / unsubscribe_space_* calls in flight (worker threads)
    expand,      \* a raw selection and what the expansion made of it, once and twice
    feed,        \* poller -> feed -> the entry of today the feed held at the poller's last invocation
    seenItems,   \* poller -> the seen-item document: entry -> "none" (no key) or the payload stored
    published,   \* poller -> <<entry, space>> -> how many messages were published for the pair
    runs,        \* how many poller invocations have been handled
    lastRun,     \* the last poller invocation: what it fetched and what it found new
    parsed,      \* a fetched feed document and the entries its poller's parser returned
    outbox,      \* a poller invocation step by step: its position and its publishes
    releaseNotes, \* cloud_release_notes: product -> the html of the stored note, <<>> when none
    lastNotes    \* the last invocation of the release-notes poller

vars == <<record, inv, response, lastReq, requests, webhook, threads, expand,
          feed, seenItems, published, runs, lastRun, parsed, outbox,
          releaseNotes, lastNotes>>

chatVars == <<record, response, lastReq, requests, webhook>>

pollVars == <<feed, seenItems, published, runs, lastRun, parsed, outbox>>

notesVars == <<releaseNotes, lastNotes>>

----------------------------------------------------------------------------
(* Bounds of the model *)

\* at most this many identifiers are ticked in one submitted dialog
MaxSelected == 1

\* at most this many chat_app requests are handled in one behaviour
MaxRequests == 2

\* at most this many worker threads run record_space_* / unsubscribe_space_* at once
MaxThreads == 2

\* at most this many identifiers are in a raw selection that is expanded twice
MaxTicked == 3

\* at most this many poller invocations are handled in one behaviour of the three pollers
MaxRuns == 2

\* at most this many invocations are handled in one behaviour of the blogs poller alone
MaxBlogRuns == 3

\* a release note of a feed has at most this many parts (a headed subsection or a
\* run of text)
MaxSections == 2

\* an invocation has at most this many new items to publish
MaxPublishes == 5

\* a feed document holds at most this many entries
MaxEntries == 3

\* at most this many identifiers have a failing inverted-index write in one request
MaxFailed == 1

\* at most this many chat_app requests are handled in one behaviour with failing writes
MaxFaultRequests == 1

----------------------------------------------------------------------------
(* Values *)

\* a document snapshot with exists = False; one that exists carries its fields
NoDoc == [exists |-> FALSE]

\* a document of an inverted collection
ItemDoc(spaces_subscribed) == [exists |-> TRUE, spaces_subscribed |-> spaces_subscribed]

\* a document of product_space_subscriptions: data holds the four lists
SpaceDoc(data) == [exists |-> TRUE, data |-> data]

\* what the caller of an HTTP function gets: a body and a status. An exception
\* that leaves the function, and a function that returns None, make the
\* framework answer with status 500.
HttpResponse(body, status) == [body |-> body, status |-> status]

RECURSIVE SetToSeq(_)
SetToSeq(S) == IF S = {} THEN <<>> ELSE LET x == CHOOSE y \in S : TRUE IN <<x>> \o SetToSeq(S \ {x})

Range(q) == {q[k] : k \in 1..Len(q)}

\* the spaces of the model, by their resource name
Spaces == {"spaces/A", "spaces/B"}

\* space_id.replace("/", "_"): the key of a space's record document
SpaceDocKey(space_id) ==
    CASE space_id = "spaces/A" -> "spaces_A"
      [] space_id = "spaces/B" -> "spaces_B"

SpaceDocKeys == {SpaceDocKey(s) : s \in Spaces}

\* the four fields of a space's record, one per domain
Domains == {"products_subscribed", "categories_subscribed",
            "youtube_channels_subscribed", "repos_subscribed"}

\* the form field of the dialog that carries a domain's selection
FormField(d) ==
    CASE d = "products_subscribed" -> "contactType"
      [] d = "categories_subscribed" -> "blogType"
      [] d = "youtube_channels_subscribed" -> "youtubeChannelType"
      [] d = "repos_subscribed" -> "repoType"

----------------------------------------------------------------------------
(* client_utils: the lists the dialog offers and the category lists *)

google_cloud_products == <<"All Products", "All Data Products", "BigQuery">>
google_cloud_data_products == <<"BigQuery">>
categories == <<"All Blogs", "All Data Blogs", "Data Analytics">>
data_categories == <<"Data Analytics">>
channels == <<"All YouTube Channels", "Google Cloud Tech">>
repos == <<"All Repos", "adk-python">>

\* Python's order of the strings of the model (sorted() compares code points)
PyOrder ==
    <<"All Blogs", "All Data Blogs", "All Data Products", "All Products", "All Repos",
      "All YouTube Channels", "BigQuery", "Data Analytics", "Google Cloud Tech", "adk-python">>

\* sorted(list(S)): the strings of S in Python's order
Sorted(S) == SelectSeq(PyOrder, LAMBDA x : x \in S)

\* the list a domain's multi-select offers (all_possible_*)
AllPossible(d) ==
    CASE d = "products_subscribed" -> google_cloud_products
      [] d = "categories_subscribed" -> categories
      [] d = "youtube_channels_subscribed" -> channels
      [] d = "repos_subscribed" -> repos

Universe(d) == Range(AllPossible(d))

----------------------------------------------------------------------------
(* chat-client/main.py: the category maps and the override tags *)

\* of the four tags of CATEGORY_MAP the dialog of the model offers one
CATEGORY_MAP == [tag \in {"All Data Products"} |-> google_cloud_data_products]

BLOG_CATEGORY_MAP == [tag \in {"All Data Blogs"} |-> data_categories]

YOUTUBE_CHANNEL_MAP == [tag \in {"All YouTube Channels"} |-> channels]

REPO_MAP == [tag \in {"All Repos"} |-> repos]

\* the map openInitialDialog resolves a domain's record with
ResolverMap(d) ==
    CASE d = "products_subscribed" -> CATEGORY_MAP
      [] d = "categories_subscribed" -> BLOG_CATEGORY_MAP
      [] d = "youtube_channels_subscribed" -> YOUTUBE_CHANNEL_MAP
      [] d = "repos_subscribed" -> REPO_MAP

\* the tag whose presence means "everything" in a domain
OverrideTag(d) ==
    CASE d = "products_subscribed" -> "All Products"
      [] d = "categories_subscribed" -> "All Blogs"
      [] d = "youtube_channels_subscribed" -> "All YouTube Channels"
      [] d = "repos_subscribed" -> "All Repos"

----------------------------------------------------------------------------
(* chat-client/main.py: expansion of a submitted selection *)

\* the union of the lists of the tags of category_map that are in initial_set
TagMembers(initial_set, category_map) ==
    UNION {Range(category_map[tag]) : tag \in (DOMAIN category_map) \cap initial_set}

\* handle_templatized_notes_inputs keeping only concrete products: the tags ticked
\* are replaced by their members
handle_templatized_notes_inputs_concrete(products) ==
    LET initial_products_set == Range(products)
        tags == (DOMAIN CATEGORY_MAP) \cup {"All Products"}
    IN IF "All Products" \in initial_products_set
       THEN [list |-> Sorted(Range(google_cloud_products) \ tags), all |-> TRUE]
       ELSE [list |-> Sorted((initial_products_set
                              \cup TagMembers(initial_products_set, CATEGORY_MAP)) \ tags),
             all |-> FALSE]

\* handle_templatized_notes_inputs whose final set starts empty instead of as a
\* copy of the initial set: only the members of the ticked tags are returned
handle_templatized_notes_inputs_members_only(products) ==
    LET initial_products_set == Range(products) IN
    IF "All Products" \in initial_products_set
    THEN [list |-> Sorted(Range(google_cloud_products)), all |-> TRUE]
    ELSE [list |-> Sorted(TagMembers(initial_products_set, CATEGORY_MAP)), all |-> FALSE]

\* each handler returns (sorted list, override flag): [list |-> .., all |-> ..]
handle_templatized_notes_inputs(products) ==
    LET initial_products_set == Range(products) IN
    IF "All Products" \in initial_products_set
    THEN [list |-> Sorted(Range(google_cloud_products)), all |-> TRUE]
    ELSE [list |-> Sorted(initial_products_set \cup TagMembers(initial_products_set, CATEGORY_MAP)),
          all |-> FALSE]

\* handle_templatized_blogs_inputs keeping only concrete categories: the tags
\* ticked are replaced by their members
handle_templatized_blogs_inputs_concrete(cats) ==
    LET initial_categories_set == Range(cats)
        tags == (DOMAIN BLOG_CATEGORY_MAP) \cup {"All Blogs"}
    IN IF "All Blogs" \in initial_categories_set
       THEN [list |-> Sorted(Range(categories) \ tags), all |-> TRUE]
       ELSE [list |-> Sorted((initial_categories_set
                              \cup TagMembers(initial_categories_set, BLOG_CATEGORY_MAP)) \ tags),
             all |-> FALSE]

handle_templatized_blogs_inputs(cats) ==
    LET initial_categories_set == Range(cats) IN
    IF "All Blogs" \in initial_categories_set
    THEN [list |-> Sorted(Range(categories)), all |-> TRUE]
    ELSE [list |-> Sorted(initial_categories_set
                          \cup TagMembers(initial_categories_set, BLOG_CATEGORY_MAP)),
          all |-> FALSE]

handle_templatized_youtube_inputs(chans) ==
    LET initial_channels_set == Range(chans) IN
    IF "All YouTube Channels" \in initial_channels_set
    THEN [list |-> Sorted(Range(channels)), all |-> TRUE]
    ELSE [list |-> Sorted(initial_channels_set), all |-> FALSE]

\* handle_templatized_repos_inputs returning the list as it was submitted, neither
\* sorted nor freed of duplicates
handle_templatized_repos_inputs_as_submitted(rs) ==
    LET initial_repos_set == Range(rs) IN
    IF "All Repos" \in initial_repos_set
    THEN [list |-> Sorted(Range(repos)), all |-> TRUE]
    ELSE [list |-> rs, all |-> FALSE]

handle_templatized_repos_inputs(rs) ==
    LET initial_repos_set == Range(rs) IN
    IF "All Repos" \in initial_repos_set
    THEN [list |-> Sorted(Range(repos)), all |-> TRUE]
    ELSE [list |-> Sorted(initial_repos_set), all |-> FALSE]

\* the handler submitDialog applies to a domain's form field
HandleInputs(d, value) ==
    CASE d = "products_subscribed" -> handle_templatized_notes_inputs(value)
      [] d = "categories_subscribed" -> handle_templatized_blogs_inputs(value)
      [] d = "youtube_channels_subscribed" -> handle_templatized_youtube_inputs(value)
      [] d = "repos_subscribed" -> handle_templatized_repos_inputs(value)

----------------------------------------------------------------------------
(* chat-client/main.py: the inverted index, one document per item *)

\* product.replace("/", ""): no identifier of the model holds a slash, and the
\* other three collections use the identifier itself
ItemDocKey(d, item) == item

\* the write of record_space_* without the test that the space is not yet listed
RecordSpaceWrite_unchecked(doc, seen, space_id) ==
    IF seen.exists
    THEN ItemDoc(Append(seen.spaces_subscribed, space_id))
    ELSE ItemDoc(<<space_id>>)

\* the write of record_space_*: `seen` is the snapshot its get() returned, `doc` the
\* document at the time of the write
RecordSpaceWrite(doc, seen, space_id) ==
    IF seen.exists
    THEN IF space_id \notin Range(seen.spaces_subscribed)
         THEN \* update({"spaces_subscribed": spaces_subscribed})
              ItemDoc(Append(seen.spaces_subscribed, space_id))
         ELSE doc                           \* nothing is written
    ELSE ItemDoc(<<space_id>>)              \* set({.., "spaces_subscribed": [space_id]})

\* an addition that appends the space whether the list holds it or not
record_space_subscription_appending(doc, space_id) ==
    IF doc.exists THEN ItemDoc(Append(doc.spaces_subscribed, space_id))
    ELSE ItemDoc(<<space_id>>)

\* record_space_subscription / record_space_blogs / record_space_youtube_subscription /
\* record_space_repo_subscription run without interruption
record_space_subscription(doc, space_id) == RecordSpaceWrite(doc, doc, space_id)

\* an unsubscribe that empties the list of the document
unsubscribe_space_product_clearing(doc, space_id) ==
    IF ~doc.exists THEN doc ELSE ItemDoc(<<>>)

\* update({"spaces_subscribed": ArrayRemove([space_id])}) raises NotFound when there
\* is no document; the worker's future keeps the exception and nobody reads it
unsubscribe_space_product(doc, space_id) ==
    IF ~doc.exists THEN doc
    ELSE ItemDoc(SelectSeq(doc.spaces_subscribed, LAMBDA s : s # space_id))

----------------------------------------------------------------------------
(* chat-client/main.py: the selection the dialog shows *)

get_members_only(category_tag, category_map) ==
    LET full_list == IF category_tag \in DOMAIN category_map
                     THEN category_map[category_tag] ELSE <<>>
    IN {item \in Range(full_list) : item # category_tag}

\* ResolveList without the test that the item is in the subscribed set
ResolveList_unfiltered(all_possible, override, category_map, subscribed_set, doc_exists) ==
    IF override \in subscribed_set
    THEN [k \in 1..Len(all_possible) |->
            [text |-> all_possible[k], selected |-> all_possible[k] = override]]
    ELSE IF doc_exists
    THEN LET active_tags == {tag \in DOMAIN category_map : tag \in subscribed_set}
             covered_by_active_tags ==
                 UNION {get_members_only(tag, category_map) : tag \in active_tags}
         IN [k \in 1..Len(all_possible) |->
                [text |-> all_possible[k],
                 selected |-> all_possible[k] \in active_tags
                              \/ all_possible[k] \notin covered_by_active_tags]]
    ELSE [k \in 1..Len(all_possible) |-> [text |-> all_possible[k], selected |-> FALSE]]

\* one of the four if / elif / else blocks of openInitialDialog: the list of
\* {text, selected} entries of one multi-select
ResolveList(all_possible, override, category_map, subscribed_set, doc_exists) ==
    IF override \in subscribed_set
    THEN [k \in 1..Len(all_possible) |->
            [text |-> all_possible[k], selected |-> all_possible[k] = override]]
    ELSE IF doc_exists
    THEN LET active_tags == {tag \in DOMAIN category_map : tag \in subscribed_set}
             covered_by_active_tags ==
                 UNION {get_members_only(tag, category_map) : tag \in active_tags}
         IN [k \in 1..Len(all_possible) |->
                [text |-> all_possible[k],
                 selected |-> all_possible[k] \in active_tags
                              \/ (all_possible[k] \in subscribed_set
                                  /\ all_possible[k] \notin covered_by_active_tags)]]
    ELSE [k \in 1..Len(all_possible) |-> [text |-> all_possible[k], selected |-> FALSE]]

notes(products_subscribed_set, doc_exists) ==
    ResolveList(google_cloud_products, "All Products", CATEGORY_MAP,
                products_subscribed_set, doc_exists)

blogs(categories_subscribed_set, doc_exists) ==
    ResolveList(categories, "All Blogs", BLOG_CATEGORY_MAP,
                categories_subscribed_set, doc_exists)

youtube_channels(youtube_channels_subscribed_set, doc_exists) ==
    ResolveList(channels, "All YouTube Channels", YOUTUBE_CHANNEL_MAP,
                youtube_channels_subscribed_set, doc_exists)

repo_list(repos_subscribed_set, doc_exists) ==
    ResolveList(repos, "All Repos", REPO_MAP, repos_subscribed_set, doc_exists)

\* the except branch of openInitialDialog: every entry unselected
Fallback(all_possible) ==
    [k \in 1..Len(all_possible) |-> [text |-> all_possible[k], selected |-> FALSE]]

\* doc_data.get(field, []) as a set
FieldSet(doc, d) == IF doc.exists THEN Range(doc.data[d]) ELSE {}

\* openInitialDialog(request_json) against the record collection `store`. The space
\* is read from request_json["chat"]["appCommandPayload"]; an event that has no such
\* payload raises KeyError inside the try block.
openInitialDialog(request_json, store) ==
    IF request_json.payload # "appCommandPayload"
    THEN [kind |-> "dialog", error |-> "Failed to load subscriptions.",
          lists |-> [d \in Domains |-> Fallback(AllPossible(d))]]
    ELSE LET products_doc == store[SpaceDocKey(request_json.space)]
             doc_exists == products_doc.exists
         IN [kind |-> "dialog", error |-> "",
             lists |-> [d \in Domains |->
                CASE d = "products_subscribed" ->
                        notes(FieldSet(products_doc, d), doc_exists)
                  [] d = "categories_subscribed" ->
                        blogs(FieldSet(products_doc, d), doc_exists)
                  [] d = "youtube_channels_subscribed" ->
                        youtube_channels(FieldSet(products_doc, d), doc_exists)
                  [] d = "repos_subscribed" ->
                        repo_list(FieldSet(products_doc, d), doc_exists)]]

----------------------------------------------------------------------------
(* chat-client/main.py: the subscription ledger *)

ItemDocKeys(d) == {ItemDocKey(d, item) : item \in Universe(d)}

\* the inverted collections after the "record" or the "unsubscribe" call ran for
\* `space_id` on every item of items[d]
ApplyToItems(index, items, space_id, op) ==
    [d \in Domains |->
        [k \in ItemDocKeys(d) |->
            IF \E item \in items[d] : ItemDocKey(d, item) = k
            THEN IF op = "record"
                 THEN record_space_subscription(index[d][k], space_id)
                 ELSE unsubscribe_space_product(index[d][k], space_id)
            ELSE index[d][k]]]

\* record_product_subscription that merges the submitted lists into the record
record_product_subscription_merged(space_id, new, store, index) ==
    LET key == SpaceDocKey(space_id)
        previous_doc == store[key]
        merged == [d \in Domains |->
                      IF previous_doc.exists
                      THEN SetToSeq(Range(previous_doc.data[d]) \cup Range(new[d]))
                      ELSE new[d]]
    IN [store |-> [store EXCEPT ![key] = SpaceDoc(merged)],
        index |-> index,
        removals |-> {}]

\* record_product_subscription with the set difference taken the wrong way round
record_product_subscription_reversed(space_id, new, store, index) ==
    LET key == SpaceDocKey(space_id)
        previous_doc == store[key]
        unsubscribed == [d \in Domains |->
                            IF previous_doc.exists
                            THEN Range(new[d]) \ Range(previous_doc.data[d])
                            ELSE {}]
    IN [store |-> [store EXCEPT ![key] = SpaceDoc(new)],
        index |-> ApplyToItems(index, unsubscribed, space_id, "unsubscribe"),
        removals |-> UNION {{<<d, item>> : item \in unsubscribed[d]} : d \in Domains}]

\* record_product_subscription(space_id, products, categories, youtube_channels, repos):
\* `new` holds the four lists. Returns the record collection, the inverted
\* collections and the (field, identifier) pairs an unsubscribe was submitted for.
record_product_subscription(space_id, new, store, index) ==
    LET key == SpaceDocKey(space_id)
        previous_doc == store[key]
        unsubscribed == [d \in Domains |->
                            IF previous_doc.exists
                            THEN Range(previous_doc.data[d]) \ Range(new[d])
                            ELSE {}]
    IN [store |-> [store EXCEPT ![key] = SpaceDoc(new)],
        index |-> ApplyToItems(index, unsubscribed, space_id, "unsubscribe"),
        removals |-> UNION {{<<d, item>> : item \in unsubscribed[d]} : d \in Domains}]

\* the lists submitDialog computes from the form
SubmittedLists(form) ==
    [d \in Domains |->
        IF FormField(d) \in DOMAIN form THEN HandleInputs(d, form[FormField(d)]).list
        ELSE <<>>]

\* the forms a user can submit: any ticks, at most MaxSelected of them; a
\* multi-select with no tick is not in formInputs
Ticks == UNION {{<<d, item>> : item \in Universe(d)} : d \in Domains}

\* the sets of at most n ticks
RECURSIVE TickSets(_)
TickSets(n) ==
    IF n = 0 THEN {{}}
    ELSE LET fewer == TickSets(n - 1) IN fewer \cup {P \cup {t} : P \in fewer, t \in Ticks}

\* formInputs with the ticks P: a field is present when one of its entries is ticked
FormOf(P) ==
    [f \in {FormField(t[1]) : t \in P} |->
        SetToSeq({t[2] : t \in {u \in P : FormField(u[1]) = f}})]

Forms == {FormOf(P) : P \in TickSets(MaxSelected)}

NoLists == [d \in Domains |-> <<>>]

NoForm == FormOf({})

\* the identifiers ticked in a form's field of domain d
Ticked(form, d) == IF FormField(d) \in DOMAIN form THEN Range(form[FormField(d)]) ELSE {}

Message(text) == [kind |-> "message", error |-> text, lists |-> NoLists]

\* what lastReq keeps of a request: the handler, the payload of the event, the
\* space, the form, the space's record before it, the unsubscribes it submitted
Request(handler, payload, space_id, form, prior, removals) ==
    [handler |-> handler, payload |-> payload, space |-> space_id, form |-> form,
     prior |-> prior, removals |-> removals]

\* buttonClickedPayload, actionName submitDialog
SubmitDialog(space_id, form) ==
    \E new \in {SubmittedLists(form)} :
    \E added \in {ApplyToItems(inv, [d \in Domains |-> Range(new[d])], space_id,
                               "record")} :
    \E done \in {record_product_subscription(space_id, new, record, added)} :
       /\ record' = done.store
       /\ inv' = done.index
       /\ response' = Message("submitted")
       /\ lastReq' = Request("submitDialog", "buttonClickedPayload", space_id, form,
                             record[SpaceDocKey(space_id)], done.removals)

\* a removal that deletes the record and leaves the inverted entries
RemovedFromSpace_kept(space_id) ==
    LET key == SpaceDocKey(space_id)
        products_doc == record[key]
        all == [d \in Domains |-> FieldSet(products_doc, d)]
    IN /\ record' = [record EXCEPT ![key] = NoDoc]
       /\ UNCHANGED inv
       /\ response' = Message("Done")
       /\ lastReq' = Request("removedFromSpace", "removedFromSpacePayload", space_id, NoForm,
                             products_doc,
                             UNION {{<<d, item>> : item \in all[d]} : d \in Domains})

\* removedFromSpacePayload
RemovedFromSpace(space_id) ==
    LET key == SpaceDocKey(space_id)
        products_doc == record[key]
        all == [d \in Domains |-> FieldSet(products_doc, d)]
    IN /\ IF products_doc.exists
          THEN /\ inv' = ApplyToItems(inv, all, space_id, "unsubscribe")
               /\ record' = [record EXCEPT ![key] = NoDoc]
          ELSE UNCHANGED <<inv, record>>
       /\ response' = Message("Done")
       /\ lastReq' = Request("removedFromSpace", "removedFromSpacePayload", space_id, NoForm,
                             products_doc,
                             UNION {{<<d, item>> : item \in all[d]} : d \in Domains})

\* appCommandPayload, SLASH_COMMAND, appCommandId = SUBSCRIBE_COMMAND_ID
SlashSubscribe(space_id) ==
    /\ response' = openInitialDialog([payload |-> "appCommandPayload", space |-> space_id], record)
    /\ lastReq' = Request("openInitialDialog", "appCommandPayload", space_id, NoForm,
                          record[SpaceDocKey(space_id)], {})
    /\ UNCHANGED <<record, inv>>

\* buttonClickedPayload, actionName openInitialDialog
ButtonOpenDialog(space_id) ==
    /\ response' = openInitialDialog([payload |-> "buttonClickedPayload", space |-> space_id], record)
    /\ lastReq' = Request("openInitialDialog", "buttonClickedPayload", space_id, NoForm,
                          record[SpaceDocKey(space_id)], {})
    /\ UNCHANGED <<record, inv>>

\* the events of POST /: the key of the chat event and, for an app command or a
\* button click, the appCommandId or the actionName
ChatEvents ==
    [payload : {"messagePayload", "appCommandPayload", "addedToSpacePayload",
                "removedFromSpacePayload", "buttonClickedPayload", "none"},
     id : {"SUBSCRIBE_COMMAND_ID", "SUBSCRIPTIONS_COMMAND_ID", "openInitialDialog",
           "submitDialog", "unknown"}]

\* chat_app, lines 40-133: the handler an event of POST / goes to, "unexpected"
\* for the print of line 133
chat_app(event) ==
    CASE event.payload = "messagePayload" -> "handleMessage"
      [] event.payload = "appCommandPayload" ->
            IF event.id = "SUBSCRIBE_COMMAND_ID" THEN "openInitialDialog"
            ELSE IF event.id = "SUBSCRIPTIONS_COMMAND_ID" THEN "returnSubscriptions"
            ELSE "unexpected"
      [] event.payload = "addedToSpacePayload" -> "handleMessage"
      [] event.payload = "removedFromSpacePayload" -> "removedFromSpace"
      [] event.payload = "buttonClickedPayload" ->
            IF event.id = "openInitialDialog" THEN "openInitialDialog"
            ELSE IF event.id = "submitDialog" THEN "submitDialog"
            ELSE "unexpected"
      [] OTHER -> "unexpected"

\* the function returns without a value
NoResponse == [kind |-> "none", error |-> "", lists |-> NoLists]

\* an unmatched event handled as the removal of the space
Unexpected_removing(space_id, event) ==
    /\ chat_app(event) = "unexpected"
    /\ response' = NoResponse
    /\ lastReq' = Request("unexpected", event.payload, space_id, NoForm,
                          record[SpaceDocKey(space_id)], {})
    /\ record' = [record EXCEPT ![SpaceDocKey(space_id)] = NoDoc]
    /\ UNCHANGED inv

\* an event no branch of chat_app returns for: print("Reached an unexpected state.")
Unexpected(space_id, event) ==
    /\ chat_app(event) = "unexpected"
    /\ response' = NoResponse
    /\ lastReq' = Request("unexpected", event.payload, space_id, NoForm,
                          record[SpaceDocKey(space_id)], {})
    /\ UNCHANGED <<record, inv>>

\* one chat_app request, handled from start to end
ChatApp(handler) ==
    /\ requests < MaxRequests
    /\ requests' = requests + 1
    /\ handler
    /\ UNCHANGED <<webhook, threads, expand, pollVars, notesVars>>

----------------------------------------------------------------------------
(* chat-client/main.py: POST /messages, the push of an outbound notification *)

\* the top-level keys create_message knows
PayloadKeys == {"release_note", "blog", "video", "release"}

\* what req.get_json() and the decoding of envelope["message"]["data"] give: no
\* envelope, data that does not decode to JSON, or the payload with its
\* top-level keys and its space_id ("none" when the key is missing)
Envelope(kind, keys, space_id) == [kind |-> kind, keys |-> keys, space_id |-> space_id]

Envelopes ==
    {Envelope("empty", {}, "none"), Envelope("undecodable", {}, "none")}
    \cup {Envelope("payload", keys, space_id) :
             keys \in SUBSET PayloadKeys, space_id \in Spaces \cup {"none"}}

\* create_message(pubsub_message): the first of the four keys present decides the
\* title; with none of them the message is the generic error
create_message(pubsub_message) ==
    IF "release_note" \in pubsub_message.keys
    THEN [title |-> "New Release", message |-> "html"]
    ELSE IF "blog" \in pubsub_message.keys
    THEN [title |-> "New Blog", message |-> "summary"]
    ELSE IF "video" \in pubsub_message.keys
    THEN [title |-> "New Video", message |-> "summary"]
    ELSE IF "release" \in pubsub_message.keys
    THEN [title |-> "New GitHub Release", message |-> "title"]
    ELSE [title |-> "An Error Occurred", message |-> "An unexpected error occurred."]

NoMessage == [title |-> "none", message |-> "none"]

\* handle_pubsub_message answering with an error status when the try block raised
handle_pubsub_message_unacknowledged(envelope, send_raises) ==
    IF envelope.kind # "payload"
    THEN [reply |-> HttpResponse("Error", 500), sent |-> NoMessage]
    ELSE IF send_raises
    THEN [reply |-> HttpResponse("Error", 500), sent |-> NoMessage]
    ELSE [reply |-> HttpResponse("Done", 200), sent |-> create_message(envelope)]

\* handle_pubsub_message(req): the reply, and the message that reached the space
\* (NoMessage when an exception came first). send_raises: whether
\* client_utils.send_chat_message raises.
handle_pubsub_message(envelope, send_raises) ==
    IF envelope.kind # "payload"
    THEN [reply |-> HttpResponse("Done", 200), sent |-> NoMessage]     \* except branch
    ELSE IF send_raises
    THEN [reply |-> HttpResponse("Done", 200), sent |-> NoMessage]     \* except branch
    ELSE [reply |-> HttpResponse("Done", 200), sent |-> create_message(envelope)]

NoWebhook ==
    [envelope |-> Envelope("none", {}, "none"), raised |-> FALSE,
     reply |-> HttpResponse("none", 0), sent |-> <<>>]

\* chat_app for POST /messages, handled from start to end
PubsubPush(envelope, send_raises) ==
    /\ requests < MaxRequests
    /\ requests' = requests + 1
    /\ \E result \in {handle_pubsub_message(envelope, send_raises)} :
          webhook' = [envelope |-> envelope,
                      raised |-> envelope.kind # "payload" \/ send_raises,
                      reply |-> result.reply,
                      sent |-> IF result.sent = NoMessage THEN webhook.sent
                               ELSE Append(webhook.sent,
                                           [space_id |-> envelope.space_id, message |-> result.sent])]
    /\ UNCHANGED <<record, response, lastReq, inv, threads, expand, pollVars, notesVars>>

----------------------------------------------------------------------------
(* chat-client/main.py: the calls on the inverted index, run by the executor's
   worker threads of concurrent requests. A record_space_* call reads the
   document and writes it in two steps; an unsubscribe_space_* call is one
   update with ArrayRemove. *)

Call(op, d, item, space_id, pc, seen) ==
    [op |-> op, d |-> d, item |-> item, space |-> space_id, pc |-> pc, seen |-> seen]

\* executor.submit(record_space_subscription | record_space_blogs |
\* record_space_youtube_subscription | record_space_repo_subscription, space_id, item)
SubmitRecord(d, item, space_id) ==
    /\ Len(threads) < MaxThreads
    /\ threads' = Append(threads, Call("record", d, item, space_id, "get", NoDoc))
    /\ UNCHANGED inv

\* executor.submit(unsubscribe_space_product | unsubscribe_space_blogs |
\* unsubscribe_space_youtube | unsubscribe_space_repo, space_id, .., item)
SubmitUnsubscribe(d, item, space_id) ==
    /\ Len(threads) < MaxThreads
    /\ threads' = Append(threads, Call("unsubscribe", d, item, space_id, "update", NoDoc))
    /\ UNCHANGED inv

\* doc = doc_ref.get()
RecordGet(i) ==
    /\ threads[i].op = "record" /\ threads[i].pc = "get"
    /\ threads' = [threads EXCEPT ![i].pc = "write",
                                  ![i].seen = inv[threads[i].d][ItemDocKey(threads[i].d, threads[i].item)]]
    /\ UNCHANGED inv

\* the if / else after the get(): update, set, or nothing
RecordWrite(i) ==
    /\ threads[i].op = "record" /\ threads[i].pc = "write"
    /\ LET d == threads[i].d
           key == ItemDocKey(d, threads[i].item)
       IN inv' = [inv EXCEPT ![d][key] = RecordSpaceWrite(@, threads[i].seen, threads[i].space)]
    /\ threads' = [threads EXCEPT ![i].pc = "done"]

\* doc_ref.update({"spaces_subscribed": firestore.ArrayRemove([space_id])})
UnsubscribeUpdate(i) ==
    /\ threads[i].op = "unsubscribe" /\ threads[i].pc = "update"
    /\ LET d == threads[i].d
           key == ItemDocKey(d, threads[i].item)
       IN inv' = [inv EXCEPT ![d][key] = unsubscribe_space_product(@, threads[i].space)]
    /\ threads' = [threads EXCEPT ![i].pc = "done"]

\* how many times x occurs in the list q
Count(q, x) == Cardinality({k \in 1..Len(q) : q[k] = x})

\* C3 (inverted index idempotence): whatever the interleaving of the calls, no
\* item's spaces_subscribed lists a space twice; and a record_space_* call that
\* writes what it read (no other write came between its get and its write) leaves
\* its space listed exactly once.
InvertedIndexIdempotence ==
    /\ [](\A d \in Domains : \A k \in ItemDocKeys(d) : \A space_id \in Spaces :
            inv[d][k].exists => Count(inv[d][k].spaces_subscribed, space_id) <= 1)
    /\ [][\A i \in 1..Len(threads) :
            LET d == threads[i].d
                key == ItemDocKey(d, threads[i].item)
            IN (/\ threads[i].pc = "write"
                /\ threads'[i].pc = "done"
                /\ threads[i].seen = inv[d][key])
               => /\ inv'[d][key].exists
                  /\ Count(inv'[d][key].spaces_subscribed, threads[i].space) = 1]_vars

\* two record_space_* calls for the same item and space have both finished, each
\* having read the document before the other wrote it
InvertedIndexWitness ==
    \E i, j \in 1..Len(threads) :
        /\ i # j
        /\ threads[i].op = "record" /\ threads[j].op = "record"
        /\ threads[i].pc = "done" /\ threads[j].pc = "done"
        /\ threads[i].d = threads[j].d /\ threads[i].item = threads[j].item
        /\ threads[i].space = threads[j].space
        /\ ~threads[i].seen.exists /\ ~threads[j].seen.exists
        /\ Count(inv[threads[i].d][ItemDocKey(threads[i].d, threads[i].item)].spaces_subscribed,
                 threads[i].space) = 1

----------------------------------------------------------------------------
(* chat-client/main.py: a submission and a space removal in which the
   inverted-index call of some identifiers raises. The exception stays in the
   call's future: submitDialog, record_product_subscription and chat_app wait
   for the futures and never ask for their result. *)

\* the space whose requests meet calls that raise
FaultSpace == "spaces/A"

\* the forms submitted where calls raise: nothing ticked, or one identifier (a
\* ticked tag expands to several)
FaultForms == {FormOf(P) : P \in {{}} \cup {{t} : t \in Ticks}}

\* the sets of (field, identifier) pairs whose inverted-index call raises, among
\* the calls a request of the space makes: one per submitted and per stored
\* identifier
FailedCalls(space_id, form, store) ==
    LET calls == {t \in Ticks : t[2] \in Range(SubmittedLists(form)[t[1]])
                                      \cup FieldSet(store[SpaceDocKey(space_id)], t[1])}
    IN {P \in SUBSET calls : Cardinality(P) <= MaxFailed}

\* items without the identifiers of `failed`, per domain
Succeeding(items, failed) == [d \in Domains |-> {item \in items[d] : <<d, item>> \notin failed}]

\* the futures of one request that hold an exception
Raised(op, items, failed, space_id) ==
    {Call(op, t[1], t[2], space_id, "raised", NoDoc) : t \in {u \in failed : u[2] \in items[u[1]]}}

\* a submission that gives up at the first call that raises: nothing more is
\* written, neither to the inverted index nor to the record
submitDialog_aborting(space_id, form, store, index, failed) ==
    LET key == SpaceDocKey(space_id)
        new == SubmittedLists(form)
        wanted == [d \in Domains |-> Range(new[d])]
        previous_doc == store[key]
        unsubscribed == [d \in Domains |->
                            IF previous_doc.exists
                            THEN Range(previous_doc.data[d]) \ Range(new[d])
                            ELSE {}]
        raised == Raised("record", wanted, failed, space_id)
                  \cup Raised("unsubscribe", unsubscribed, failed, space_id)
    IN IF raised # {}
       THEN [store |-> store, index |-> index, removals |-> {}, raised |-> raised,
             response |-> Message("")]
       ELSE [store |-> [store EXCEPT ![key] = SpaceDoc(new)],
             index |-> ApplyToItems(ApplyToItems(index, wanted, space_id, "record"),
                                    unsubscribed, space_id, "unsubscribe"),
             removals |-> UNION {{<<d, item>> : item \in unsubscribed[d]} : d \in Domains},
             raised |-> raised,
             response |-> Message("submitted")]

\* submitDialog(event) with the calls of `failed` raising: the record_space_*
\* calls (lines 488-511), then record_product_subscription (line 513) with its
\* unsubscribe_space_* calls and its set()
submitDialog(space_id, form, store, index, failed) ==
    LET key == SpaceDocKey(space_id)
        new == SubmittedLists(form)
        wanted == [d \in Domains |-> Range(new[d])]
        added == ApplyToItems(index, Succeeding(wanted, failed), space_id, "record")
        previous_doc == store[key]
        unsubscribed == [d \in Domains |->
                            IF previous_doc.exists
                            THEN Range(previous_doc.data[d]) \ Range(new[d])
                            ELSE {}]
    IN [store |-> [store EXCEPT ![key] = SpaceDoc(new)],
        index |-> ApplyToItems(added, Succeeding(unsubscribed, failed), space_id, "unsubscribe"),
        removals |-> UNION {{<<d, item>> : item \in unsubscribed[d]} : d \in Domains},
        raised |-> Raised("record", wanted, failed, space_id)
                   \cup Raised("unsubscribe", unsubscribed, failed, space_id),
        response |-> Message("submitted")]

\* chat_app for removedFromSpacePayload with the calls of `failed` raising
removedFromSpace(space_id, store, index, failed) ==
    LET key == SpaceDocKey(space_id)
        products_doc == store[key]
        all == [d \in Domains |-> FieldSet(products_doc, d)]
    IN IF products_doc.exists
       THEN [store |-> [store EXCEPT ![key] = NoDoc],
             index |-> ApplyToItems(index, Succeeding(all, failed), space_id, "unsubscribe"),
             removals |-> UNION {{<<d, item>> : item \in all[d]} : d \in Domains},
             raised |-> Raised("unsubscribe", all, failed, space_id),
             response |-> Message("Done")]
       ELSE [store |-> store, index |-> index, removals |-> {}, raised |-> {},
             response |-> Message("Done")]

\* one chat_app request with failing calls, handled from start to end; threads
\* keeps the futures that hold an exception
FaultyRequest(handler, payload, space_id, form, done) ==
    /\ requests < MaxFaultRequests
    /\ requests' = requests + 1
    /\ record' = done.store
    /\ inv' = done.index
    /\ response' = done.response
    /\ threads' = SetToSeq(done.raised)
    /\ lastReq' = Request(handler, payload, space_id, form, record[SpaceDocKey(space_id)],
                          done.removals)
    /\ UNCHANGED <<webhook, expand, pollVars, notesVars>>

----------------------------------------------------------------------------
(* chat-client/main.py: the removal of a space step by step: the handler reads
   the record and submits the unsubscribe calls, the worker threads run them in
   any order, and the handler goes on when the executor has shut down. *)

\* the handler has not answered yet
Pending == [kind |-> "pending", error |-> "", lists |-> NoLists]

\* a removal that deletes the record without waiting for the calls it submitted
RemovalFinish_unwaited ==
    /\ response = Pending
    /\ record' = [record EXCEPT ![SpaceDocKey(lastReq.space)] = NoDoc]
    /\ response' = Message("Done")
    /\ UNCHANGED <<inv, threads, lastReq, requests, webhook, expand, pollVars, notesVars>>

\* lines 58-62 and 69-103: products_doc = product_doc_ref.get() and, when it
\* exists, one executor.submit per identifier of its four lists; line 117 when
\* it does not exist
RemovalStart(space_id) ==
    LET products_doc == record[SpaceDocKey(space_id)]
        all == UNION {{<<d, item>> : item \in FieldSet(products_doc, d)} : d \in Domains}
    IN /\ requests < MaxRequests
       /\ response # Pending
       /\ requests' = requests + 1
       /\ lastReq' = Request("removedFromSpace", "removedFromSpacePayload", space_id, NoForm,
                             products_doc, all)
       /\ threads' = SetToSeq({Call("unsubscribe", t[1], t[2], space_id, "update", NoDoc) : t \in all})
       /\ response' = IF products_doc.exists THEN Pending ELSE Message("Done")
       /\ UNCHANGED <<record, inv, webhook, expand, pollVars, notesVars>>

\* lines 104-117: the with block has left (every call has run), futures.wait,
\* product_doc_ref.delete(), return ("Done", 200)
RemovalFinish ==
    /\ response = Pending
    /\ \A i \in 1..Len(threads) :
          (threads[i].op = "unsubscribe" /\ threads[i].space = lastReq.space) => threads[i].pc = "done"
    /\ record' = [record EXCEPT ![SpaceDocKey(lastReq.space)] = NoDoc]
    /\ response' = Message("Done")
    /\ UNCHANGED <<inv, threads, lastReq, requests, webhook, expand, pollVars, notesVars>>

----------------------------------------------------------------------------
(* chat-client/main.py: a submission step by step: submitDialog submits the
   record_space_* calls and waits for them, record_product_subscription reads the
   record, submits the unsubscribe calls, waits for them and sets the record *)

\* the handler's position: inside submitDialog's with block (lines 488-513), and
\* inside the with block of record_product_subscription (lines 688-734)
Recording == [kind |-> "recording", error |-> "", lists |-> NoLists]

Unsubscribing == [kind |-> "unsubscribing", error |-> "", lists |-> NoLists]

\* lines 456-507: the lists of the form, one record_space_* call per identifier
SubmitStart(space_id, form) ==
    LET new == SubmittedLists(form)
        all == UNION {{<<d, item>> : item \in Range(new[d])} : d \in Domains}
    IN /\ requests < MaxRequests
       /\ response \notin {Pending, Recording, Unsubscribing}
       /\ requests' = requests + 1
       /\ lastReq' = Request("submitDialog", "buttonClickedPayload", space_id, form,
                             record[SpaceDocKey(space_id)], {})
       /\ threads' = SetToSeq({Call("record", t[1], t[2], space_id, "get", NoDoc) : t \in all})
       /\ response' = Recording
       /\ UNCHANGED <<record, inv, webhook, expand, pollVars, notesVars>>

\* lines 508-513 and 670-734: the with block has left and futures.wait has
\* returned; the record is read and one unsubscribe call is submitted per
\* identifier of set(previous) - set(new)
SubmitUnsubscribes ==
    LET space_id == lastReq.space
        new == SubmittedLists(lastReq.form)
        previous_doc == record[SpaceDocKey(space_id)]
        unsubscribed == UNION {{<<d, item>> : item \in FieldSet(previous_doc, d) \ Range(new[d])} :
                               d \in Domains}
    IN /\ response = Recording
       /\ \A i \in 1..Len(threads) : threads[i].pc = "done"
       /\ threads' = threads \o SetToSeq({Call("unsubscribe", t[1], t[2], space_id, "update", NoDoc) :
                                            t \in unsubscribed})
       /\ lastReq' = [lastReq EXCEPT !.prior = previous_doc, !.removals = unsubscribed]
       /\ response' = Unsubscribing
       /\ UNCHANGED <<record, inv, requests, webhook, expand, pollVars, notesVars>>

\* a set of the record that does not wait for the calls
SubmitFinish_unwaited ==
    /\ response \in {Recording, Unsubscribing}
    /\ record' = [record EXCEPT ![SpaceDocKey(lastReq.space)] = SpaceDoc(SubmittedLists(lastReq.form))]
    /\ response' = Message("submitted")
    /\ UNCHANGED <<inv, threads, lastReq, requests, webhook, expand, pollVars, notesVars>>

\* lines 729-743: futures.wait has returned, space_doc_ref.set({the four lists})
SubmitFinish ==
    /\ response = Unsubscribing
    /\ \A i \in 1..Len(threads) : threads[i].pc = "done"
    /\ record' = [record EXCEPT ![SpaceDocKey(lastReq.space)] = SpaceDoc(SubmittedLists(lastReq.form))]
    /\ response' = Message("submitted")
    /\ UNCHANGED <<inv, threads, lastReq, requests, webhook, expand, pollVars, notesVars>>

----------------------------------------------------------------------------
(* chat-client/main.py: the expansion of a raw selection, applied to its own
   output *)

\* the lists of at most n distinct identifiers of the set U
Picks(U, n) ==
    {q \in UNION {[1..k -> U] : k \in 0..n} : \A a, b \in 1..Len(q) : q[a] = q[b] => a = b}

NoExpand ==
    [d |-> "none", raw |-> <<>>, stage |-> "idle", once |-> <<>>, all |-> FALSE, twice |-> <<>>]

\* stringInputs.value of one multi-select: the identifiers ticked, in any order
RawSelections(d) == Picks(Universe(d), MaxTicked)

\* any list of at most MaxTicked identifiers, repeated ones included: what the
\* handlers accept as argument
RawLists(d) == UNION {[1..k -> Universe(d)] : k \in 0..MaxTicked}

\* products, all_products = handle_templatized_notes_inputs(products), and the
\* same for the other three fields
ExpandOnce ==
    /\ expand.stage = "raw"
    /\ \E result \in {HandleInputs(expand.d, expand.raw)} :
          expand' = [expand EXCEPT !.stage = "once", !.once = result.list, !.all = result.all]
    /\ UNCHANGED <<chatVars, inv, threads, pollVars, notesVars>>

\* the handler applied to the list it returned
ExpandTwice ==
    /\ expand.stage = "once"
    /\ expand' = [expand EXCEPT !.stage = "twice", !.twice = HandleInputs(expand.d, expand.once).list]
    /\ UNCHANGED <<chatVars, inv, threads, pollVars, notesVars>>

----------------------------------------------------------------------------
(* check-blogs/main.py, check-github/main.py, check-youtube/main.py: the three
   pollers of the identifier-keyed domains. Every feed of the model holds at most
   one entry of today, so a map from identifier to payload is written as a
   function from the feed to the payload, "none" where the map has no key. *)

Pollers == {"blogs", "github", "youtube"}

\* rss_urls of each poller, each feed named by its title: the blog category, the
\* repository, the channel. The first feed of each is an item of the dialog.
rss_urls ==
    [blogs |-> <<"Data Analytics", "Databases">>,
     github |-> <<"adk-python", "genai-toolbox">>,
     youtube |-> <<"Google Cloud Tech", "Google Cloud">>]

FeedsOf(p) == Range(rss_urls[p])

\* the inverted collection a poller fans out from
SubscriptionsRef(p) ==
    CASE p = "blogs" -> "categories_subscribed"
      [] p = "github" -> "repos_subscribed"
      [] p = "youtube" -> "youtube_channels_subscribed"

\* subscriptions_ref.document(name).get()
GetItemDoc(index, d, name) == IF name \in DOMAIN index[d] THEN index[d][name] ELSE NoDoc

Payloads == {"v1", "v2"}

EmptyMap(p) == [f \in FeedsOf(p) |-> "none"]

Keys(map) == {f \in DOMAIN map : map[f] # "none"}

\* what requests.get and the parse make of a feed: its entries, no entry (an error
\* page, an error response), or an exception
FetchOutcomes == {"ok", "empty", "raise"}

\* get_blog_posts(rss_url): no try around the request and the parse
get_blog_posts(content, outcome) == IF outcome = "ok" THEN content ELSE "none"

\* get_releases_from_rss(rss_url): an exception leaves release_map empty
get_releases_from_rss(content, outcome) == IF outcome = "ok" THEN content ELSE "none"

\* get_videos_from_rss(rss_url): an exception returns {}
get_videos_from_rss(content, outcome) == IF outcome = "ok" THEN content ELSE "none"

\* a novelty test that also takes an entry whose stored payload differs as new
get_new_videos_by_payload(video_map, stored_video_map) ==
    [f \in DOMAIN video_map |->
        IF video_map[f] # "none" /\ stored_video_map[f] # video_map[f]
        THEN video_map[f] ELSE "none"]

get_new_blog_posts(blog_map, stored_blog_map) ==
    [f \in DOMAIN blog_map |->
        IF blog_map[f] # "none" /\ stored_blog_map[f] = "none" THEN blog_map[f] ELSE "none"]

get_new_releases(release_map, stored_release_map) ==
    [f \in DOMAIN release_map |->
        IF release_map[f] # "none" /\ stored_release_map[f] = "none"
        THEN release_map[f] ELSE "none"]

get_new_videos(video_map, stored_video_map) ==
    [f \in DOMAIN video_map |->
        IF video_map[f] # "none" /\ stored_video_map[f] = "none" THEN video_map[f] ELSE "none"]

\* a fan-out that stops after the first space of the list
Fanout_first_space(p, counts, sent) ==
    [pair \in DOMAIN counts |->
        LET doc == GetItemDoc(inv, SubscriptionsRef(p), pair[1])
        IN IF pair[1] \in sent /\ doc.exists /\ doc.spaces_subscribed # <<>>
              /\ doc.spaces_subscribed[1] = pair[2]
           THEN counts[pair] + 1
           ELSE counts[pair]]

\* the publish_to_pubsub calls of one run: for every entry in `sent`, one message
\* per element of the spaces_subscribed list of its inverted document
Fanout(p, counts, sent) ==
    [pair \in DOMAIN counts |->
        LET doc == GetItemDoc(inv, SubscriptionsRef(p), pair[1])
        IN IF pair[1] \in sent /\ doc.exists
           THEN counts[pair] + Cardinality({k \in 1..Len(doc.spaces_subscribed) :
                                               doc.spaces_subscribed[k] = pair[2]})
           ELSE counts[pair]]

\* what an invocation did: outcome is what the fetch of each feed gave, summary
\* the new entries that have a "summary"
Run(p, status, fetched, new, outcome, summary) ==
    [poller |-> p, status |-> status, fetched |-> fetched, new |-> new,
     outcome |-> outcome, summary |-> summary]

NoRun == Run("none", "none", <<>>, <<>>, <<>>, {})

\* no feed document is being parsed
NoParse == [poller |-> "none", entries |-> <<>>, stage |-> "none", returned |-> {}]

\* what a feed can hold at the next invocation, given what it held at the last
\* one: an entry of today appears ("none" to "v1") and may be edited ("v1" to "v2")
Later(was, is) == was = is \/ was = "none" \/ is = "v2"

Contents(p) == {content \in [FeedsOf(p) -> {"none"} \cup Payloads] :
                   \A f \in FeedsOf(p) : Later(feed[p][f], content[f])}

\* what the fetches of one invocation can give: "empty" is the parse that loses
\* the entry a feed holds
Outcomes(content) ==
    {outcome \in [DOMAIN content -> FetchOutcomes] :
        \A f \in DOMAIN content : outcome[f] = "empty" => content[f] # "none"}

\* a poller invocation, handled from start to end; content is what its feeds hold.
\* The pollers are separate functions that share no document: a behaviour follows
\* the invocations of one of them
Poll(p, content, run, bound) ==
    /\ runs < bound
    /\ lastRun.poller \in {"none", p}
    /\ runs' = runs + 1
    /\ feed' = [feed EXCEPT ![p] = content]
    /\ run
    /\ UNCHANGED <<parsed, outbox, chatVars, inv, threads, expand, notesVars>>

\* send_new_blogs(): outcome is what each fetch gives, summarized the entries for
\* which summarize_blog set blog["summary"]
send_new_blogs(content, outcome, summarized) ==
    LET p == "blogs" IN
    IF \E f \in FeedsOf(p) : outcome[f] = "raise"
    THEN \* the exception leaves send_new_blogs at the loop over blogs_by_categories
         /\ lastRun' = Run(p, "raised", EmptyMap(p), EmptyMap(p), outcome, {})
         /\ UNCHANGED <<seenItems, published>>
    ELSE \E blog_map \in {[f \in FeedsOf(p) |-> get_blog_posts(content[f], outcome[f])]} :
         \E new_blogs_map \in {get_new_blog_posts(blog_map, seenItems[p])} :
            /\ published' = [published EXCEPT
                                ![p] = Fanout(p, @, Keys(new_blogs_map) \cap summarized)]
            /\ seenItems' = IF Keys(new_blogs_map) # {}
                       THEN [seenItems EXCEPT ![p] = blog_map]        \* doc_ref.set(blog_map)
                       ELSE seenItems
            /\ lastRun' = Run(p, "done", blog_map, new_blogs_map, outcome,
                              Keys(new_blogs_map) \cap summarized)

\* send_new_release_notifications()
send_new_release_notifications(content, outcome) ==
    LET p == "github" IN
    \E all_releases_map \in {[f \in FeedsOf(p) |-> get_releases_from_rss(content[f], outcome[f])]} :
    \E new_releases_map \in {get_new_releases(all_releases_map, seenItems[p])} :
       /\ published' = [published EXCEPT ![p] = Fanout(p, @, Keys(new_releases_map))]
       /\ seenItems' = [seenItems EXCEPT          \* store_new_releases: set(update_data, merge=True)
                     ![p] = [f \in FeedsOf(p) |->
                               IF new_releases_map[f] # "none" THEN new_releases_map[f] ELSE @[f]]]
       /\ lastRun' = Run(p, "done", all_releases_map, new_releases_map, outcome,
                         Keys(new_releases_map))

\* send_new_video_notifications()
send_new_video_notifications(content, outcome) ==
    LET p == "youtube" IN
    \E all_videos_map \in {[f \in FeedsOf(p) |-> get_videos_from_rss(content[f], outcome[f])]} :
    \E new_videos_map \in {get_new_videos(all_videos_map, seenItems[p])} :
       /\ published' = [published EXCEPT ![p] = Fanout(p, @, Keys(new_videos_map))]
       /\ seenItems' = IF Keys(new_videos_map) # {}
                  THEN [seenItems EXCEPT      \* stored_videos.update(all_videos_map); set(stored_videos)
                          ![p] = [f \in FeedsOf(p) |->
                                    IF all_videos_map[f] # "none" THEN all_videos_map[f] ELSE @[f]]]
                  ELSE seenItems
       /\ lastRun' = Run(p, "done", all_videos_map, new_videos_map, outcome, {})

\* An entry of a feed document: its identifier (guid, id, yt:videoId), its date
\* (pubDate, updated, published) and the other elements the parser reads (title,
\* link, description, content), each present or missing; the date is of today
\* or older. The identifier of the entry at position k is k.
EntryShapes ==
    [id : {"present", "missing"}, date : {"today", "old", "missing"},
     body : {"present", "missing"}]

FeedDocs == UNION {[1..k -> EntryShapes] : k \in 0..MaxEntries}

\* the loop of get_blog_posts (lines 130-162): every element is read before the
\* date is compared, and the AttributeError of a missing one skips the entry
get_blog_posts_entries(items) ==
    {k \in DOMAIN items :
        /\ items[k].id = "present" /\ items[k].body = "present" /\ items[k].date # "missing"
        /\ items[k].date = "today"}

\* the loop of get_releases_from_rss (lines 122-134): updated is read first, the
\* other elements for an entry of today; the exception of a missing one ends the
\* loop and release_map is returned as far as it was built
get_releases_from_rss_entries(releases) ==
    LET raises(k) == \/ releases[k].date = "missing"
                     \/ /\ releases[k].date = "today"
                        /\ (releases[k].id = "missing" \/ releases[k].body = "missing")
    IN {k \in DOMAIN releases :
           /\ releases[k].date = "today"
           /\ \A j \in 1..k : ~raises(j)}

\* the loop of get_videos_from_rss (lines 54-72): yt:videoId and published are
\* read first, the other elements for an entry of today; the exception of a
\* missing one returns {}
get_videos_from_rss_entries(videos) ==
    LET raises(k) == \/ videos[k].id = "missing"
                     \/ videos[k].date = "missing"
                     \/ videos[k].date = "today" /\ videos[k].body = "missing"
    IN IF \E k \in DOMAIN videos : raises(k)
       THEN {}
       ELSE {k \in DOMAIN videos : videos[k].date = "today"}

\* the parse of one fetched feed document by the parser of a poller
ParseFeed ==
    /\ parsed.stage = "fetched"
    /\ parsed' = [parsed EXCEPT
                     !.stage = "returned",
                     !.returned = CASE parsed.poller = "blogs" ->
                                           get_blog_posts_entries(parsed.entries)
                                    [] parsed.poller = "github" ->
                                           get_releases_from_rss_entries(parsed.entries)
                                    [] parsed.poller = "youtube" ->
                                           get_videos_from_rss_entries(parsed.entries)]
    /\ UNCHANGED <<chatVars, inv, threads, expand, notesVars,
                   feed, seenItems, published, runs, lastRun, outbox>>

\* The four pollers from the first new item on. outbox.left is the number of new
\* items still to publish, outbox.pending the number of publish futures that are
\* not done yet.
PublishingPollers == Pollers \cup {"release-notes"}

\* publish_to_pubsub of check-blogs (line 194) and check-release-notes (line 233)
\* asks the future for its result; check-github and check-youtube do not
Blocking(p) == p \in {"blogs", "release-notes"}

\* what follows the loop over the new items: check-github stores before it
\* waits (lines 222-226), check-youtube (139-151) and check-blogs (220-224) wait
\* and then store, check-release-notes (272-275) has stored before the loop
After(p, pc) ==
    CASE pc = "loop" -> IF p = "github" THEN "store" ELSE "wait"
      [] pc = "store" -> IF p = "github" THEN "wait" ELSE "return"
      [] pc = "wait" -> IF p \in {"github", "release-notes"} THEN "return" ELSE "store"

NoOutbox == [poller |-> "none", pc |-> "none", left |-> 0, pending |-> 0, raised |-> FALSE]

\* one turn of the loop over the new items: subscriptions_ref.document(..).get()
\* and publish_to_pubsub; an exception of the get() leaves the function
PublishItem(store_outcome) ==
    /\ outbox.pc = "loop" /\ outbox.left > 0
    /\ Blocking(outbox.poller) => outbox.pending = 0
    /\ outbox' = IF store_outcome = "raise"
                 THEN [outbox EXCEPT !.pc = "returned", !.raised = TRUE]
                 ELSE [outbox EXCEPT !.left = @ - 1, !.pending = @ + 1]
    /\ UNCHANGED <<chatVars, inv, threads, expand, notesVars,
                   feed, seenItems, published, runs, lastRun, parsed>>

\* the publisher client resolves a future
Acknowledge ==
    /\ outbox.pc # "returned" /\ outbox.pending > 0
    /\ outbox' = [outbox EXCEPT !.pending = @ - 1]
    /\ UNCHANGED <<chatVars, inv, threads, expand, notesVars,
                   feed, seenItems, published, runs, lastRun, parsed>>

\* the statements after the loop: the write of the seen-item document, which
\* can raise, futures.wait(publish_futures, return_when=ALL_COMPLETED), and the
\* return of http_request
Advance(store_outcome) ==
    /\ outbox.pc \in {"loop", "store", "wait"}
    /\ outbox.pc = "loop" => outbox.left = 0 /\ (Blocking(outbox.poller) => outbox.pending = 0)
    /\ outbox.pc = "wait" => outbox.pending = 0
    /\ outbox' = IF outbox.pc = "store" /\ store_outcome = "raise"
                 THEN [outbox EXCEPT !.pc = "returned", !.raised = TRUE]
                 ELSE [outbox EXCEPT !.pc = IF After(outbox.poller, @) = "return"
                                            THEN "returned" ELSE After(outbox.poller, @)]
    /\ UNCHANGED <<chatVars, inv, threads, expand, notesVars,
                   feed, seenItems, published, runs, lastRun, parsed>>

\* http_request(request) of the three pollers, for the invocation `run`:
\* check-blogs returns ("Done", 200) after send_new_blogs() and has no try;
\* check-github catches every exception and returns 500 itself; check-youtube
\* calls send_new_video_notifications() and returns nothing
http_request(run) ==
    CASE run.poller = "blogs" ->
            IF run.status = "raised" THEN HttpResponse("exception", 500)
            ELSE HttpResponse("Done", 200)
      [] run.poller = "github" ->
            IF run.status = "raised" THEN HttpResponse("An internal error occurred.", 500)
            ELSE HttpResponse("Processing complete.", 200)
      [] run.poller = "youtube" ->
            IF run.status = "raised" THEN HttpResponse("exception", 500)
            ELSE HttpResponse("None", 500)

----------------------------------------------------------------------------
(* check-release-notes/main.py. The html of a note is a sequence of tokens: an
   <h3> element with its text, a character of text, a newline, another tag.
   sha256 is taken to have no collisions: two digests differ iff the texts do. *)

HeaderText(token) ==
    CASE token = "<h3>a</h3>" -> "a"
      [] token = "<h3>b</h3>" -> "b"
      [] token = "<h3>Libraries</h3>" -> "Libraries"
      [] token = "<h3>Libraries Updated</h3>" -> "Libraries Updated"

HeaderTokens == {"<h3>a</h3>", "<h3>b</h3>", "<h3>Libraries</h3>", "<h3>Libraries Updated</h3>"}

IsHeader(token) == token \in HeaderTokens

\* BeautifulSoup(html, "html.parser").get_text(): the tags go, the text stays
RECURSIVE get_text(_)
get_text(html) ==
    IF html = <<>> THEN <<>>
    ELSE LET token == Head(html) IN
         (IF IsHeader(token) THEN <<HeaderText(token)>>
          ELSE IF token = "<p>" THEN <<>>
          ELSE <<token>>) \o get_text(Tail(html))

\* re.split(r"\<h3\>.*?\<\/h3\>", html): the pieces around the <h3> elements, the
\* piece before the first one included
RECURSIVE re_split(_)
re_split(html) ==
    IF html = <<>> THEN << <<>> >>
    ELSE LET rest == re_split(Tail(html)) IN
         IF IsHeader(Head(html)) THEN << <<>> >> \o rest
         ELSE << <<Head(html)>> \o rest[1] >> \o Tail(rest)

\* the line of position i: how many newlines come before it
LineOf(html, i) == Cardinality({k \in 1..(i - 1) : html[k] = "\n"})

HeaderPositions(html) == {i \in 1..Len(html) : IsHeader(html[i])}

\* re.findall(r"<h3>(.*)?</h3>", html): the greedy group runs from the first <h3>
\* of a line to its last </h3>, so there is one match for every line that holds an
\* <h3> element. An entry here is f"<h3>{match}</h3>": the tokens from the first
\* <h3> element of the line to the last one.
re_findall(html) ==
    LET lines == {LineOf(html, i) : i \in HeaderPositions(html)}
        on(line) == {i \in HeaderPositions(html) : LineOf(html, i) = line}
        first(line) == CHOOSE i \in on(line) : \A j \in on(line) : i <= j
        last(line) == CHOOSE i \in on(line) : \A j \in on(line) : j <= i
        nth(k) == CHOOSE line \in lines : Cardinality({m \in lines : m < line}) = k - 1
    IN [k \in 1..Cardinality(lines) |-> SubSeq(html, first(nth(k)), last(nth(k)))]

\* the position of the first <h3> element after position i, 0 when there is none
NextHeader(html, i) ==
    IF \E j \in HeaderPositions(html) : j > i
    THEN CHOOSE j \in HeaderPositions(html) : j > i /\ \A k \in HeaderPositions(html) : k > i => j <= k
    ELSE 0

\* re.sub(r"<h3>Libraries</h3>(.|\n)*?<h3>", "<h3>Libraries Updated</h3>\n<h3>", html)
\* from position i on: a match ends with the <h3> of the next element, which is
\* put back, and the scan goes on behind it
RECURSIVE SubLibraries(_, _)
SubLibraries(html, i) ==
    IF i > Len(html) THEN <<>>
    ELSE IF html[i] = "<h3>Libraries</h3>" /\ NextHeader(html, i) # 0
    THEN <<"<h3>Libraries Updated</h3>", "\n", html[NextHeader(html, i)]>>
         \o SubLibraries(html, NextHeader(html, i) + 1)
    ELSE <<html[i]>> \o SubLibraries(html, i + 1)

remove_libraries(html) ==
    LET libraries == {i \in 1..Len(html) : html[i] = "<h3>Libraries</h3>"} IN
    IF \E i \in libraries : NextHeader(html, i) # 0
    THEN SubLibraries(html, 1)
    ELSE IF libraries # {}
    THEN SubSeq(html, 1, (CHOOSE i \in libraries : \A j \in libraries : i <= j) - 1)
         \o <<"<h3>Libraries Updated</h3>">>
    ELSE html

\* get_todays_release_note(rss_url): the html of the note when the feed's first
\* entry was updated today, <<>> for None
get_todays_release_note(content, outcome) ==
    IF outcome = "ok" THEN remove_libraries(content) ELSE <<>>

\* the loop of get_new_release_note_subsections from subsection `index` on: the
\* html it appends, or the IndexError of the headers list
RECURSIVE NewSubsections(_, _, _, _)
NewSubsections(index, subsections_html, headers, stored_text_only) ==
    IF index > Len(subsections_html) THEN [raised |-> FALSE, html |-> <<>>]
    ELSE LET rest == NewSubsections(index + 1, subsections_html, headers, stored_text_only) IN
         IF \E k \in 1..Len(stored_text_only) :
                stored_text_only[k] = get_text(subsections_html[index])
         THEN rest
         ELSE IF index > Len(headers) THEN [raised |-> TRUE, html |-> <<>>]
         ELSE [raised |-> rest.raised, html |-> headers[index] \o subsections_html[index] \o rest.html]

get_new_release_note_subsections(latest_html, stored_html) ==
    LET latest_release_note_subsections_html == Tail(re_split(latest_html))
        latest_release_note_subsections_headers == re_findall(latest_html)
        stored_release_note_subsections_html == Tail(re_split(stored_html))
        stored_release_note_subsections_text_only ==
            [k \in 1..Len(stored_release_note_subsections_html) |->
                get_text(stored_release_note_subsections_html[k])]
    IN NewSubsections(1, latest_release_note_subsections_html,
                      latest_release_note_subsections_headers,
                      stored_release_note_subsections_text_only)

isNewRelease(latest_html, stored_html) == get_text(latest_html) # get_text(stored_html)

\* get_new_release_notes without the comparison of the digests
get_new_release_notes_undigested(latest_html, stored_html) ==
    IF stored_html # <<>>
    THEN LET subsections == get_new_release_note_subsections(latest_html, stored_html) IN
         [saved |-> TRUE, raised |-> subsections.raised,
          new |-> ~subsections.raised /\ subsections.html # <<>>,
          html |-> subsections.html]
    ELSE [saved |-> TRUE, raised |-> FALSE, new |-> TRUE, html |-> latest_html]

\* get_new_release_notes that does not save the fetched note of a stored product
get_new_release_notes_unsaved(latest_html, stored_html) ==
    IF stored_html # <<>>
    THEN IF isNewRelease(latest_html, stored_html)
         THEN LET subsections == get_new_release_note_subsections(latest_html, stored_html) IN
              [saved |-> FALSE, raised |-> subsections.raised,
               new |-> ~subsections.raised /\ subsections.html # <<>>,
               html |-> subsections.html]
         ELSE [saved |-> FALSE, raised |-> FALSE, new |-> FALSE, html |-> <<>>]
    ELSE [saved |-> TRUE, raised |-> FALSE, new |-> TRUE, html |-> latest_html]

\* get_new_release_notes that diffs the first note of a product against nothing
get_new_release_notes_diff_first(latest_html, stored_html) ==
    IF isNewRelease(latest_html, stored_html)
    THEN LET subsections == get_new_release_note_subsections(latest_html, stored_html) IN
         [saved |-> TRUE, raised |-> subsections.raised,
          new |-> ~subsections.raised /\ subsections.html # <<>>,
          html |-> subsections.html]
    ELSE [saved |-> FALSE, raised |-> FALSE, new |-> FALSE, html |-> <<>>]

\* get_new_release_notes without the test that the html of the new subsections is
\* not empty
get_new_release_notes_unfiltered(latest_html, stored_html) ==
    IF stored_html # <<>>
    THEN IF isNewRelease(latest_html, stored_html)
         THEN LET subsections == get_new_release_note_subsections(latest_html, stored_html) IN
              [saved |-> TRUE, raised |-> subsections.raised,
               new |-> ~subsections.raised, html |-> subsections.html]
         ELSE [saved |-> FALSE, raised |-> FALSE, new |-> FALSE, html |-> <<>>]
    ELSE [saved |-> TRUE, raised |-> FALSE, new |-> TRUE, html |-> latest_html]

\* get_new_release_notes for one product: whether the note was saved, whether an
\* exception left the function, whether the product is in new_release_notes and
\* with what html. stored_html is <<>> when there is no document or no html in it.
get_new_release_notes(latest_html, stored_html) ==
    IF stored_html # <<>>
    THEN IF isNewRelease(latest_html, stored_html)
         THEN LET subsections == get_new_release_note_subsections(latest_html, stored_html) IN
              [saved |-> TRUE, raised |-> subsections.raised,
               new |-> ~subsections.raised /\ subsections.html # <<>>,
               html |-> subsections.html]
         ELSE [saved |-> FALSE, raised |-> FALSE, new |-> FALSE, html |-> <<>>]
    ELSE [saved |-> TRUE, raised |-> FALSE, new |-> TRUE, html |-> latest_html]

\* the product of the one feed of the model's rss_urls
NotesProduct == "BigQuery"

\* what lastNotes keeps of an invocation: whether an exception ended it, the note
\* fetched, whether a note was stored before, whether the note was saved, whether
\* the product is among the new release notes and with what html, the spaces a
\* message was published for, the content of today's entry as the feed gave it
NotesRun(status, fetched, existed, saved, new, html, sent, content) ==
    [status |-> status, fetched |-> fetched, existed |-> existed, saved |-> saved,
     new |-> new, html |-> html, sent |-> sent, content |-> content]

NoNotesRun == NotesRun("none", <<>>, FALSE, FALSE, FALSE, <<>>, <<>>, <<>>)

\* http_request of check-release-notes: content is the html of the first entry of
\* the feed, outcome what the fetch gives
http_request_release_notes(content, outcome) ==
    /\ \E latest \in {get_todays_release_note(content, outcome)} :
       \E stored \in {releaseNotes[NotesProduct]} :
          IF latest = <<>>
          THEN /\ lastNotes' = NotesRun("done", <<>>, stored # <<>>, FALSE, FALSE, <<>>, <<>>, <<>>)
               /\ UNCHANGED releaseNotes
          ELSE \E result \in {get_new_release_notes(latest, stored)} :
               \E product_doc \in {GetItemDoc(inv, "products_subscribed",
                                              ItemDocKey("products_subscribed", NotesProduct))} :
                  /\ releaseNotes' = IF result.saved
                                     THEN [releaseNotes EXCEPT ![NotesProduct] = latest]
                                     ELSE releaseNotes
                  /\ lastNotes' = NotesRun(IF result.raised THEN "raised" ELSE "done",
                                           latest, stored # <<>>, result.saved,
                                           result.new, result.html,
                                           IF result.new /\ product_doc.exists
                                           THEN product_doc.spaces_subscribed ELSE <<>>,
                                           content)
    /\ UNCHANGED <<chatVars, inv, threads, expand, pollVars>>

\* the parts a release note of the model is made of
NoteParts ==
    {<<"<h3>a</h3>", "x", "\n">>,
     <<"<h3>b</h3>", "y">>,
     <<"<h3>b</h3>", "<p>", "x", "\n">>,
     <<"<h3>Libraries</h3>", "y", "\n">>,
     <<"z">>}

\* the notes of at most n parts
RECURSIVE NotesOf(_)
NotesOf(n) ==
    IF n = 0 THEN {<<>>}
    ELSE LET shorter == NotesOf(n - 1) IN shorter \cup {q \o part : q \in shorter, part \in NoteParts}

\* what the first entry of the feed can hold: contents[0] is never empty
FeedNotes == NotesOf(MaxSections) \ {<<>>}

----------------------------------------------------------------------------
(* Specifications *)

InitStore ==
    /\ record = [k \in SpaceDocKeys |-> NoDoc]
    /\ inv = [d \in Domains |-> [k \in ItemDocKeys(d) |-> NoDoc]]

InitChat ==
    /\ response = Message("")
    /\ lastReq = Request("none", "none", "none", NoForm, NoDoc, {})
    /\ requests = 0
    /\ webhook = NoWebhook

InitPoll ==
    /\ feed = [p \in Pollers |-> EmptyMap(p)]
    /\ seenItems = [p \in Pollers |-> EmptyMap(p)]
    /\ published = [p \in Pollers |-> [pair \in FeedsOf(p) \X Spaces |-> 0]]
    /\ runs = 0
    /\ lastRun = NoRun
    /\ parsed = NoParse
    /\ outbox = NoOutbox

InitNotes ==
    /\ releaseNotes = [product \in {NotesProduct} |-> <<>>]
    /\ lastNotes = NoNotesRun

\* the variables of the pollers where no poller runs
NoPollers ==
    /\ feed = <<>>
    /\ seenItems = <<>>
    /\ published = <<>>
    /\ runs = 0
    /\ lastRun = NoRun
    /\ parsed = NoParse
    /\ outbox = NoOutbox
    /\ releaseNotes = <<>>
    /\ lastNotes = NoNotesRun

InitLedger ==
    /\ InitStore
    /\ InitChat
    /\ NoPollers
    /\ threads = <<>>
    /\ expand = NoExpand

NextLedger ==
    /\ requests < MaxRequests
    /\ \E space_id \in Spaces :
          \/ \E form \in Forms : ChatApp(SubmitDialog(space_id, form))
          \/ ChatApp(RemovedFromSpace(space_id))
          \/ ChatApp(SlashSubscribe(space_id))
          \/ ChatApp(ButtonOpenDialog(space_id))

SpecLedger == InitLedger /\ [][NextLedger]_vars

InitInv ==
    /\ InitStore
    /\ InitChat
    /\ NoPollers
    /\ threads = <<>>
    /\ expand = NoExpand

NextInv ==
    \/ \E d \in Domains : \E item \in Universe(d) : \E space_id \in Spaces :
          \/ SubmitRecord(d, item, space_id) /\ UNCHANGED <<chatVars, expand, pollVars, notesVars>>
          \/ SubmitUnsubscribe(d, item, space_id) /\ UNCHANGED <<chatVars, expand, pollVars, notesVars>>
    \/ \E i \in 1..Len(threads) :
          \/ RecordGet(i) /\ UNCHANGED <<chatVars, expand, pollVars, notesVars>>
          \/ RecordWrite(i) /\ UNCHANGED <<chatVars, expand, pollVars, notesVars>>
          \/ UnsubscribeUpdate(i) /\ UNCHANGED <<chatVars, expand, pollVars, notesVars>>

SpecInv == InitInv /\ [][NextInv]_vars

\* the store after one submission of a space, none of whose calls raised
InitFaults ==
    /\ \E earlier \in FaultForms :
          \E done \in {submitDialog(FaultSpace, earlier,
                                    [k \in SpaceDocKeys |-> NoDoc],
                                    [d \in Domains |-> [k \in ItemDocKeys(d) |-> NoDoc]], {})} :
              /\ record = done.store
              /\ inv = done.index
    /\ InitChat
    /\ NoPollers
    /\ threads = <<>>
    /\ expand = NoExpand

NextFaults ==
    \E space_id \in {FaultSpace} :
        \/ \E form \in FaultForms : \E failed \in FailedCalls(space_id, form, record) :
              FaultyRequest("submitDialog", "buttonClickedPayload", space_id, form,
                            submitDialog(space_id, form, record, inv, failed))
        \/ \E failed \in FailedCalls(space_id, NoForm, record) :
              FaultyRequest("removedFromSpace", "removedFromSpacePayload", space_id, NoForm,
                            removedFromSpace(space_id, record, inv, failed))

SpecFaults == InitFaults /\ [][NextFaults]_vars

\* removals of the spaces, one request at a time, after one submission of a space
NextRemoval ==
    \/ \E space_id \in Spaces : RemovalStart(space_id)
    \/ \E i \in 1..Len(threads) :
          UnsubscribeUpdate(i) /\ UNCHANGED <<chatVars, expand, pollVars, notesVars>>
    \/ RemovalFinish
    \/ \E space_id \in Spaces : \E event \in ChatEvents :
          response # Pending /\ ChatApp(Unexpected(space_id, event))

SpecRemoval == InitFaults /\ [][NextRemoval]_vars

\* the removal of a space while a record_space_* call of another space's
\* submission runs, and the runs of the release-notes poller
OverlapSpace == "spaces/B"

OverlapNotes == {q \in FeedNotes : Len(q) <= Len(<<"<h3>a</h3>", "x", "\n">>)}

InitDeparture ==
    /\ \E earlier \in FaultForms :
          \E done \in {submitDialog(FaultSpace, earlier,
                                    [k \in SpaceDocKeys |-> NoDoc],
                                    [d \in Domains |-> [k \in ItemDocKeys(d) |-> NoDoc]], {})} :
              /\ record = done.store
              /\ inv = done.index
    /\ InitChat
    /\ feed = <<>>
    /\ seenItems = <<>>
    /\ published = <<>>
    /\ runs = 0
    /\ lastRun = NoRun
    /\ parsed = NoParse
    /\ outbox = NoOutbox
    /\ InitNotes
    /\ threads = <<>>
    /\ expand = NoExpand

NextDeparture ==
    \/ RemovalStart(FaultSpace)
    \/ \E d \in Domains : \E item \in Universe(d) :
          /\ response = Pending
          /\ SubmitRecord(d, item, OverlapSpace)
          /\ UNCHANGED <<chatVars, expand, pollVars, notesVars>>
    \/ \E i \in 1..Len(threads) :
          (RecordGet(i) \/ RecordWrite(i) \/ UnsubscribeUpdate(i))
          /\ UNCHANGED <<chatVars, expand, pollVars, notesVars>>
    \/ RemovalFinish
    \/ \E content \in OverlapNotes : http_request_release_notes(content, "ok")

SpecDeparture == InitDeparture /\ [][NextDeparture]_vars

\* the dialog opened and a form submitted by a space that has submitted before
NextReopen ==
    \E space_id \in {FaultSpace} :
        \/ ChatApp(SlashSubscribe(space_id))
        \/ ChatApp(ButtonOpenDialog(space_id))
        \/ \E form \in Forms : ChatApp(SubmitDialog(space_id, form))

SpecReopen == InitFaults /\ [][NextReopen]_vars

NextSubmit ==
    \/ \E space_id \in Spaces : \E form \in FaultForms : SubmitStart(space_id, form)
    \/ \E i \in 1..Len(threads) :
          (RecordGet(i) \/ RecordWrite(i) \/ UnsubscribeUpdate(i))
          /\ UNCHANGED <<chatVars, expand, pollVars, notesVars>>
    \/ SubmitUnsubscribes
    \/ SubmitFinish

SpecSubmit == InitFaults /\ [][NextSubmit]_vars

NextWebhook ==
    \E envelope \in Envelopes : \E send_raises \in BOOLEAN :
        (envelope.kind = "payload" \/ ~send_raises) /\ PubsubPush(envelope, send_raises)

SpecWebhook == InitLedger /\ [][NextWebhook]_vars

InitExpand ==
    /\ InitStore
    /\ InitChat
    /\ NoPollers
    /\ threads = <<>>
    /\ \E d \in Domains : \E raw \in RawSelections(d) :
          expand = [d |-> d, raw |-> raw, stage |-> "raw", once |-> <<>>, all |-> FALSE,
                    twice |-> <<>>]

NextExpand == ExpandOnce \/ ExpandTwice

SpecExpand == InitExpand /\ [][NextExpand]_vars

\* the expansion of any list, whatever its order and its repetitions
InitExpandAny ==
    /\ InitStore
    /\ InitChat
    /\ NoPollers
    /\ threads = <<>>
    /\ \E d \in Domains : \E raw \in RawLists(d) :
          expand = [d |-> d, raw |-> raw, stage |-> "raw", once |-> <<>>, all |-> FALSE,
                    twice |-> <<>>]

SpecExpandAny == InitExpandAny /\ [][NextExpand]_vars

\* the spaces_subscribed lists the first feed of every poller starts with
PollSubscribers == {<<"spaces/A">>, <<"spaces/A", "spaces/B">>}

\* the pollers start with nothing stored and an inverted index that lists the
\* subscribers of the first feed of every poller
InitPollers ==
    /\ record = [k \in SpaceDocKeys |-> NoDoc]
    /\ \E spaces_subscribed \in PollSubscribers :
          inv = [d \in Domains |->
                    [k \in ItemDocKeys(d) |->
                        IF \E p \in Pollers : d = SubscriptionsRef(p) /\ k = rss_urls[p][1]
                        THEN ItemDoc(spaces_subscribed) ELSE NoDoc]]
    /\ InitChat
    /\ InitPoll
    /\ releaseNotes = <<>>
    /\ lastNotes = NoNotesRun
    /\ threads = <<>>
    /\ expand = NoExpand

NextPoll ==
    \/ \E content \in Contents("blogs") :
       \E outcome \in Outcomes(content) :
       \E summarized \in SUBSET Keys(content) :
          Poll("blogs", content, send_new_blogs(content, outcome, summarized), MaxRuns)
    \/ \E content \in Contents("github") :
       \E outcome \in Outcomes(content) :
          Poll("github", content, send_new_release_notifications(content, outcome), MaxRuns)
    \/ \E content \in Contents("youtube") :
       \E outcome \in Outcomes(content) :
          Poll("youtube", content, send_new_video_notifications(content, outcome), MaxRuns)

SpecPoll == InitPollers /\ [][NextPoll]_vars

\* a parser is handed a feed document
InitParse ==
    /\ InitStore
    /\ InitChat
    /\ feed = <<>>
    /\ seenItems = <<>>
    /\ published = <<>>
    /\ runs = 0
    /\ lastRun = NoRun
    /\ releaseNotes = <<>>
    /\ lastNotes = NoNotesRun
    /\ threads = <<>>
    /\ expand = NoExpand
    /\ \E p \in Pollers : \E entries \in FeedDocs :
          parsed = [poller |-> p, entries |-> entries, stage |-> "fetched", returned |-> {}]
    /\ outbox = NoOutbox

SpecParse == InitParse /\ [][ParseFeed]_vars

\* an invocation that found new items
InitPublish ==
    /\ InitStore
    /\ InitChat
    /\ feed = <<>>
    /\ seenItems = <<>>
    /\ published = <<>>
    /\ runs = 0
    /\ lastRun = NoRun
    /\ parsed = NoParse
    /\ releaseNotes = <<>>
    /\ lastNotes = NoNotesRun
    /\ threads = <<>>
    /\ expand = NoExpand
    /\ \E p \in PublishingPollers : \E n \in 1..MaxPublishes :
          outbox = [poller |-> p, pc |-> "loop", left |-> n, pending |-> 0, raised |-> FALSE]

NextPublish ==
    \/ \E store_outcome \in {"ok", "raise"} : PublishItem(store_outcome)
    \/ Acknowledge
    \/ \E store_outcome \in {"ok", "raise"} : Advance(store_outcome)

SpecPublish == InitPublish /\ [][NextPublish]_vars

\* the blogs poller alone, over more invocations
NextBlogs ==
    \E content \in Contents("blogs") :
    \E outcome \in Outcomes(content) :
    \E summarized \in SUBSET Keys(content) :
       Poll("blogs", content, send_new_blogs(content, outcome, summarized), MaxBlogRuns)

SpecBlogs == InitPollers /\ [][NextBlogs]_vars

\* the release-notes poller starts with no note stored and an inverted index that
\* lists the subscribers of the product
InitReleaseNotes ==
    /\ record = [k \in SpaceDocKeys |-> NoDoc]
    /\ \E spaces_subscribed \in PollSubscribers :
          inv = [d \in Domains |->
                    [k \in ItemDocKeys(d) |->
                        IF d = "products_subscribed" /\ k = ItemDocKey(d, NotesProduct)
                        THEN ItemDoc(spaces_subscribed) ELSE NoDoc]]
    /\ InitChat
    /\ feed = <<>>
    /\ seenItems = <<>>
    /\ published = <<>>
    /\ runs = 0
    /\ lastRun = NoRun
    /\ parsed = NoParse
    /\ outbox = NoOutbox
    /\ InitNotes
    /\ threads = <<>>
    /\ expand = NoExpand

NextNotes ==
    \E content \in FeedNotes : \E outcome \in {"ok", "none"} :
        http_request_release_notes(content, outcome)

SpecNotes == InitReleaseNotes /\ [][NextNotes]_vars

----------------------------------------------------------------------------
(* The subscription ledger and the dialog *)

\* the expanded lists a form stands for, as sets
NewSet(form, d) == Range(SubmittedLists(form)[d])

\* C1 (ledger delta): a submission submits unsubscribes for exactly the identifiers
\* of the prior record that are not in the new lists, and leaves the space's
\* record equal to the new lists.
LedgerDelta ==
    lastReq.handler = "submitDialog" =>
        /\ lastReq.removals =
              UNION {{<<d, item>> : item \in FieldSet(lastReq.prior, d) \ NewSet(lastReq.form, d)} :
                     d \in Domains}
        /\ record[SpaceDocKey(lastReq.space)].exists
        /\ \A d \in Domains :
              record[SpaceDocKey(lastReq.space)].data[d] = Sorted(NewSet(lastReq.form, d))

\* a submission over a prior record that drops some identifiers and keeps others
LedgerDeltaWitness ==
    /\ lastReq.handler = "submitDialog"
    /\ lastReq.prior.exists
    /\ lastReq.removals # {}
    /\ \E d \in Domains : FieldSet(lastReq.prior, d) \cap NewSet(lastReq.form, d) # {}

\* the selection a dialog response shows for domain d: the entries marked selected
Selected(d) == {response.lists[d][k].text : k \in {j \in 1..Len(response.lists[d]) :
                                                   response.lists[d][j].selected}}

\* the last request opened the dialog for a space and got a dialog back
DialogOpened == lastReq.handler = "openInitialDialog" /\ response.kind = "dialog"

\* the members a tag covers: its category list without the tag itself
Members(d, tag) == Range(ResolverMap(d)[tag]) \ {tag}

\* the tags of domain d's category map that are in the set
ActiveTags(d, subscribed) == (DOMAIN ResolverMap(d)) \cap subscribed

\* C4 (tag suppresses members): with a prior record and no override tag in it, an
\* item is shown selected iff it is an active tag, or it is subscribed and no
\* active tag covers it.
TagSuppressesMembers ==
    DialogOpened /\ lastReq.prior.exists =>
        \A d \in Domains :
            LET subscribed == FieldSet(lastReq.prior, d)
                active == ActiveTags(d, subscribed)
                covered == UNION {Members(d, tag) : tag \in active}
            IN OverrideTag(d) \notin subscribed =>
                  Selected(d) = {item \in Universe(d) :
                                    item \in active \/ (item \in subscribed /\ item \notin covered)}

\* C5 (override precedence): with the override tag in the space's record, the
\* dialog shows exactly the override tag selected.
OverridePrecedence ==
    DialogOpened =>
        \A d \in Domains :
            OverrideTag(d) \in FieldSet(lastReq.prior, d) => Selected(d) = {OverrideTag(d)}

\* C6 (cold start): with no record, or a record whose four lists are empty, the
\* dialog comes back (no exception leaves openInitialDialog) with nothing selected.
ColdStart ==
    (lastReq.handler = "openInitialDialog" /\ \A d \in Domains : FieldSet(lastReq.prior, d) = {}) =>
        /\ response.kind = "dialog"
        /\ \A d \in Domains :
              /\ Len(response.lists[d]) = Len(AllPossible(d))
              /\ \A k \in 1..Len(AllPossible(d)) :
                    response.lists[d][k] = [text |-> AllPossible(d)[k], selected |-> FALSE]

\* the dialog was opened by the slash command for a space that has no record, and
\* for one whose record holds four empty lists
ColdStartWitness ==
    /\ lastReq.handler = "openInitialDialog"
    /\ lastReq.payload = "appCommandPayload"
    /\ lastReq.prior.exists
    /\ \A d \in Domains : FieldSet(lastReq.prior, d) = {}

\* the tags of a domain: the keys of its category map and its override tag
Tags(d) == (DOMAIN ResolverMap(d)) \cup {OverrideTag(d)}

\* C10 as stated: no inverted entry is keyed by a category tag or an override tag.
NoTagKeyedEntry ==
    \A d \in Domains : \A tag \in Tags(d) : ~inv[d][ItemDocKey(d, tag)].exists

\* C10 as amended: a step creates the inverted entry keyed by a tag only when it
\* is a submission whose form ticks that tag or the domain's override tag; and a
\* submission whose form ticks a category tag, without the override tag, leaves
\* the entry keyed by that tag in existence, listing the submitting space.
TagEntryFromTickedTag ==
    [][\A d \in Domains : \A tag \in Tags(d) :
          LET key == ItemDocKey(d, tag)
              submitted == lastReq'.handler = "submitDialog" /\ requests' # requests
              ticked == Ticked(lastReq'.form, d)
          IN /\ (~inv[d][key].exists /\ inv'[d][key].exists) =>
                    submitted /\ ticked \cap {tag, OverrideTag(d)} # {}
             /\ (submitted /\ tag \in ticked /\ OverrideTag(d) \notin ticked) =>
                    /\ inv'[d][key].exists
                    /\ lastReq'.space \in Range(inv'[d][key].spaces_subscribed)]_vars

\* an inverted entry keyed by a category tag lists a space
TagEntryWitness ==
    \E d \in Domains : \E tag \in DOMAIN ResolverMap(d) : \E s \in Spaces :
        /\ inv[d][ItemDocKey(d, tag)].exists
        /\ s \in Range(inv[d][ItemDocKey(d, tag)].spaces_subscribed)
        /\ tag # OverrideTag(d)

----------------------------------------------------------------------------
(* The expansion and the pollers *)

\* C7 (idempotent re-expansion): the expansion applied to its own output gives
\* the list the first application gave.
IdempotentReExpansion == expand.stage = "twice" => expand.twice = expand.once

\* a raw selection with a category tag, which the expansion enlarged, was expanded twice
IdempotentReExpansionWitness ==
    /\ expand.stage = "twice"
    /\ Range(expand.raw) \cap DOMAIN ResolverMap(expand.d) # {}
    /\ OverrideTag(expand.d) \notin Range(expand.raw)
    /\ Range(expand.once) # Range(expand.raw)

\* C2 (no duplicate notifications) as stated: as long as no entry of a feed was
\* edited, no (entry, space) pair has been published more than once. The model's
\* inverted index never changes in a behaviour of the pollers.
NoDuplicatePublish ==
    (\A p \in Pollers : \A f \in FeedsOf(p) : feed[p][f] # "v2") =>
        \A p \in Pollers : \A pair \in FeedsOf(p) \X Spaces : published[p][pair] <= 1

\* C8 (novelty by identifier): the new items of an invocation that got as far as
\* the comparison are exactly the fetched entries whose key the seen-item
\* document did not hold before the invocation, payloads not compared.
NoveltyByIdentifier ==
    [][(runs' # runs /\ lastRun'.status = "done") =>
          \A f \in FeedsOf(lastRun'.poller) :
              lastRun'.new[f] = IF /\ lastRun'.fetched[f] # "none"
                                   /\ seenItems[lastRun'.poller][f] = "none"
                                THEN lastRun'.fetched[f] ELSE "none"]_vars

\* an invocation fetched an entry whose stored payload differs and found it not
\* new, and found another entry new
NoveltyByIdentifierWitness ==
    /\ lastRun.status = "done"
    /\ \E f, g \in FeedsOf(lastRun.poller) :
          /\ lastRun.fetched[f] = "v2"
          /\ seenItems[lastRun.poller][f] = "v1"
          /\ lastRun.new[f] = "none"
          /\ lastRun.new[g] # "none"

\* the plain-text bodies of the subsections of a note: for every <h3> element, the
\* text between it and the next <h3> element or the end of the note
SubsectionTexts(html) ==
    {get_text(SubSeq(html, i + 1,
                     IF NextHeader(html, i) = 0 THEN Len(html) ELSE NextHeader(html, i) - 1)) :
        i \in HeaderPositions(html)}

\* the fetched note's text differs from the stored note's and each of its
\* subsections has the body of some stored subsection
Retraction(fetched_html, stored_html) ==
    /\ fetched_html # <<>>
    /\ stored_html # <<>>
    /\ get_text(fetched_html) # get_text(stored_html)
    /\ SubsectionTexts(fetched_html) \subseteq SubsectionTexts(stored_html)

\* C9 (retraction suppression): an invocation that fetches a retraction of the
\* stored note ends without an exception, does not put the product among the new
\* release notes and publishes nothing for it.
RetractionSuppression ==
    [][Retraction(lastNotes'.fetched, releaseNotes[NotesProduct]) =>
          /\ lastNotes'.status = "done"
          /\ ~lastNotes'.new
          /\ lastNotes'.sent = <<>>]_vars

\* an invocation found the digest of a stored note changed, saved the fetched
\* note, which still has a subsection, and found no subsection new
RetractionSuppressionWitness ==
    /\ lastNotes.status = "done"
    /\ lastNotes.existed /\ lastNotes.saved /\ ~lastNotes.new
    /\ lastNotes.fetched # <<>>
    /\ SubsectionTexts(lastNotes.fetched) # {}
    /\ releaseNotes[NotesProduct] = lastNotes.fetched

----------------------------------------------------------------------------
(* The record a submission persists *)

\* the category tags of a domain: the keys of its category map other than the
\* override tag
CategoryTags(d) == (DOMAIN ResolverMap(d)) \ {OverrideTag(d)}

\* the list a submission left in the record of its space for domain d, as a set
Persisted(d) == Range(record[SpaceDocKey(lastReq.space)].data[d])

\* C11 as stated: the record a submission persists holds no category tag that was
\* ticked in the dialog.
NoTickedTagPersisted ==
    lastReq.handler = "submitDialog" =>
        \A d \in Domains : Persisted(d) \cap Ticked(lastReq.form, d) \cap CategoryTags(d) = {}

\* C11 as amended: the record a submission persists holds every identifier ticked,
\* category tags included, and the members of every category tag ticked, when
\* the override tag is not ticked.
TickedTagPersisted ==
    lastReq.handler = "submitDialog" =>
        \A d \in Domains :
            LET ticked == Ticked(lastReq.form, d) IN
            OverrideTag(d) \notin ticked =>
                /\ ticked \subseteq Persisted(d)
                /\ \A tag \in ticked \cap CategoryTags(d) :
                      Range(ResolverMap(d)[tag]) \subseteq Persisted(d)

\* a submission ticked a category tag without the override tag, and the record
\* holds the tag and a member of it
TickedTagPersistedWitness ==
    /\ lastReq.handler = "submitDialog"
    /\ \E d \in Domains : \E tag \in Ticked(lastReq.form, d) \cap CategoryTags(d) :
          /\ OverrideTag(d) \notin Ticked(lastReq.form, d)
          /\ d = "categories_subscribed"
          /\ tag \in Persisted(d)
          /\ Range(ResolverMap(d)[tag]) \cap Persisted(d) # {}

----------------------------------------------------------------------------
(* The expansion of a submitted selection *)

\* the position of an identifier in Python's order of strings
PyIndex(x) == CHOOSE k \in 1..Len(PyOrder) : PyOrder[k] = x

\* the list is in ascending order and holds nothing twice
StrictlySorted(q) == \A a, b \in 1..Len(q) : a < b => PyIndex(q[a]) < PyIndex(q[b])

\* C12 (expansion definition): with the override tag in the selection the
\* expansion is the domain's full list and the flag is true; otherwise it is the
\* selection united with the members of the category tags in it and the flag is
\* false; the list returned is sorted and duplicate-free, and any list with the
\* same elements gives the same result.
ExpansionDefinition ==
    expand.stage \in {"once", "twice"} =>
        LET d == expand.d
            R == Range(expand.raw)
        IN /\ IF OverrideTag(d) \in R
              THEN expand.all /\ Range(expand.once) = Universe(d)
              ELSE /\ ~expand.all
                   /\ Range(expand.once) =
                         R \cup UNION {Range(ResolverMap(d)[tag]) : tag \in CategoryTags(d) \cap R}
           /\ StrictlySorted(expand.once)
           /\ \A other \in RawLists(d) :
                 Range(other) = R => HandleInputs(d, other) = [list |-> expand.once, all |-> expand.all]

\* a selection that names an identifier twice, out of order, with a category tag and
\* without the override tag, was expanded
ExpansionDefinitionWitness ==
    /\ expand.stage = "once"
    /\ OverrideTag(expand.d) \notin Range(expand.raw)
    /\ CategoryTags(expand.d) \cap Range(expand.raw) # {}
    /\ Len(expand.raw) > Cardinality(Range(expand.raw))
    /\ ~StrictlySorted(expand.raw)
    /\ Len(expand.once) > Cardinality(Range(expand.raw))

----------------------------------------------------------------------------
(* What the pollers answer and what a failure costs *)

WebhookAlwaysDone ==
    webhook.envelope.kind # "none" =>
        /\ webhook.reply = HttpResponse("Done", 200)
        /\ (webhook.envelope.kind = "payload" /\ webhook.envelope.keys = {} /\ ~webhook.raised) =>
              /\ webhook.sent # <<>>
              /\ webhook.sent[Len(webhook.sent)] =
                    [space_id |-> webhook.envelope.space_id,
                     message |-> [title |-> "An Error Occurred",
                                  message |-> "An unexpected error occurred."]]

\* a payload with none of the four keys was answered after a push that sent
\* nothing, and the generic error message is the only message sent
WebhookAlwaysDoneWitness ==
    /\ webhook.envelope.kind = "payload"
    /\ webhook.envelope.keys = {}
    /\ ~webhook.raised
    /\ requests = 2
    /\ Len(webhook.sent) = 1
    /\ webhook.sent[1].message.title = "An Error Occurred"

----------------------------------------------------------------------------
(* Failing calls on the inverted index *)

\* the space is listed in the inverted document of the item
Listed(index, d, item, space_id) ==
    /\ index[d][ItemDocKey(d, item)].exists
    /\ space_id \in Range(index[d][ItemDocKey(d, item)].spaces_subscribed)

\* the calls of the request just handled that raised, as (op, field, identifier)
RaisedCalls(calls) == {<<calls[k].op, calls[k].d, calls[k].item>> : k \in 1..Len(calls)}

\* C15 (per-identifier failure isolation): in a submission and in a space removal,
\* whichever inverted-index calls raise, every other addition and removal is
\* performed, the space's record is overwritten (deleted, for a removal) and the
\* handler answers as it does without failures.
FailureIsolation ==
    [][requests' # requests =>
          LET space_id == lastReq'.space
              key == SpaceDocKey(space_id)
              raised == RaisedCalls(threads')
          IN /\ lastReq'.handler = "submitDialog" =>
                   /\ record'[key] = SpaceDoc(SubmittedLists(lastReq'.form))
                   /\ response' = Message("submitted")
                   /\ \A d \in Domains :
                         /\ \A item \in NewSet(lastReq'.form, d) :
                               <<"record", d, item>> \notin raised => Listed(inv', d, item, space_id)
                         /\ \A item \in FieldSet(record[key], d) \ NewSet(lastReq'.form, d) :
                               <<"unsubscribe", d, item>> \notin raised =>
                                   ~Listed(inv', d, item, space_id)
             /\ lastReq'.handler = "removedFromSpace" =>
                   /\ record'[key] = NoDoc
                   /\ response' = Message("Done")
                   /\ \A d \in Domains : \A item \in FieldSet(record[key], d) :
                         <<"unsubscribe", d, item>> \notin raised => ~Listed(inv', d, item, space_id)]_vars

\* a submission in which the addition of one identifier raised: another
\* identifier was added, and the record holds both
FailureIsolationWitness ==
    /\ lastReq.handler = "submitDialog"
    /\ \E d \in Domains : \E item, other \in NewSet(lastReq.form, d) :
          /\ <<"record", d, item>> \in RaisedCalls(threads)
          /\ ~Listed(inv, d, item, lastReq.space)
          /\ <<"record", d, other>> \notin RaisedCalls(threads)
          /\ Listed(inv, d, other, lastReq.space)
          /\ {item, other} \subseteq Range(record[SpaceDocKey(lastReq.space)].data[d])

\* C16 (natural retry) as stated: a new item with a subscriber, for which the
\* invocation published nothing, is not in the seen-item document after the
\* invocation.
NaturalRetry ==
    [][runs' # runs =>
          \A f \in FeedsOf(lastRun'.poller) :
              LET p == lastRun'.poller
                  doc == GetItemDoc(inv, SubscriptionsRef(p), f)
              IN (/\ lastRun'.new[f] # "none"
                  /\ doc.exists /\ doc.spaces_subscribed # <<>>
                  /\ \A space_id \in Spaces : published'[p][<<f, space_id>>] = published[p][<<f, space_id>>])
                 => seenItems'[p][f] = "none"]_vars

\* C17 (append/merge-only seen-item store) as stated: an identifier a seen-item
\* document holds is held by it after every invocation.
SeenItemsKept ==
    [][\A p \in Pollers : \A f \in FeedsOf(p) :
          seenItems[p][f] # "none" => seenItems'[p][f] # "none"]_vars

\* the messages an invocation published for the entry of feed f to the space
PublishedBy(p, f, space_id) == published'[p][<<f, space_id>>] - published[p][<<f, space_id>>]

FetchFailureContained ==
    (lastRun.poller \in Pollers /\ \E f \in FeedsOf(lastRun.poller) : lastRun.outcome[f] = "raise") =>
        /\ lastRun.status = "done"
        /\ \A f \in FeedsOf(lastRun.poller) :
              lastRun.fetched[f] = IF lastRun.outcome[f] = "ok" THEN feed[lastRun.poller][f]
                                   ELSE "none"

\* the entry has every element the parsers read
WellFormed(entry) == entry.id = "present" /\ entry.date # "missing" /\ entry.body = "present"

\* C20 (malformed entry skipped alone) as stated: of a feed document with one
\* entry that lacks an element, the parser returns every well-formed entry of
\* today, before or after that entry, and not that entry.
MalformedSkippedAlone ==
    (/\ parsed.stage = "returned"
     /\ Cardinality({k \in DOMAIN parsed.entries : ~WellFormed(parsed.entries[k])}) = 1) =>
        \A k \in DOMAIN parsed.entries :
            k \in parsed.returned <=>
                WellFormed(parsed.entries[k]) /\ parsed.entries[k].date = "today"

----------------------------------------------------------------------------
(* The removal of a space *)

\* the unsubscribe calls in flight or finished, as (field, identifier)
Unsubscribes(calls) ==
    {<<calls[k].d, calls[k].item>> : k \in {j \in 1..Len(calls) : calls[j].op = "unsubscribe"}}

\* C21 (unsubscribe_all on space removal): a removal of a space with a record
\* submits one unsubscribe per identifier of every list of the record, deletes
\* the record only when all of them have run, and answers "Done" with the
\* record gone; a removal of a space without a record writes nothing and
\* answers "Done".
UnsubscribeAll ==
    /\ [][(requests' # requests /\ lastReq'.handler = "removedFromSpace") =>
             LET prior == record[SpaceDocKey(lastReq'.space)]
             IN /\ Unsubscribes(threads') =
                       UNION {{<<d, item>> : item \in FieldSet(prior, d)} : d \in Domains}
                /\ record' = record /\ inv' = inv
                /\ ~prior.exists => response' = Message("Done")
                /\ prior.exists => response' = Pending]_vars
    /\ [][\A space_id \in Spaces :
             (record[SpaceDocKey(space_id)].exists /\ ~record'[SpaceDocKey(space_id)].exists) =>
                 /\ space_id = lastReq.space
                 /\ \A i \in 1..Len(threads) : threads[i].pc = "done"
                 /\ \A t \in lastReq.removals : ~Listed(inv, t[1], t[2], space_id)
                 /\ response' = Message("Done")]_vars
    /\ [](lastReq.handler = "removedFromSpace" /\ response # Pending =>
             /\ response = Message("Done")
             /\ ~record[SpaceDocKey(lastReq.space)].exists)

\* a removal of a space whose record held several identifiers has answered, as
\* the second request
UnsubscribeAllWitness ==
    /\ requests = 2
    /\ lastReq.handler = "removedFromSpace" /\ response = Message("Done")
    /\ lastReq.prior.exists /\ Cardinality(lastReq.removals) > 1
    /\ Len(threads) > 1 /\ \A i \in 1..Len(threads) : threads[i].pc = "done"
    /\ \A space_id \in Spaces : ~record[SpaceDocKey(space_id)].exists

----------------------------------------------------------------------------
(* The release notes *)

RECURSIVE SubsectionsNotIn(_, _, _)
SubsectionsNotIn(html, i, texts) ==
    IF i > Len(html) THEN <<>>
    ELSE IF IsHeader(html[i])
    THEN LET end == IF NextHeader(html, i) = 0 THEN Len(html) ELSE NextHeader(html, i) - 1
             body == SubSeq(html, i + 1, end)
         IN (IF get_text(body) \in texts THEN <<>> ELSE <<html[i]>> \o body)
            \o SubsectionsNotIn(html, end + 1, texts)
    ELSE SubsectionsNotIn(html, i + 1, texts)

\* C23 (subsection diff) as stated: the diff of a fetched note against a stored
\* one ends without an exception and gives the fetched subsections, header and
\* markup, in order, whose text is the text of no stored subsection.
SubsectionDiff ==
    [][(/\ releaseNotes[NotesProduct] # <<>>
        /\ lastNotes'.fetched # <<>>
        /\ isNewRelease(lastNotes'.fetched, releaseNotes[NotesProduct])) =>
           /\ lastNotes'.status = "done"
           /\ lastNotes'.html = SubsectionsNotIn(lastNotes'.fetched, 1,
                                                 SubsectionTexts(releaseNotes[NotesProduct]))]_vars

----------------------------------------------------------------------------
(* The record after a submission *)

\* C25 (wholesale record replace): after a submission every list of the space's
\* record is the expansion of what the form ticks in that field and holds
\* nothing else of the prior record; a field absent from the form is stored as
\* the empty list, and every identifier the prior record held in it is
\* unsubscribed.
WholesaleReplace ==
    [][(requests' # requests /\ lastReq'.handler = "submitDialog") =>
          LET space_id == lastReq'.space
              key == SpaceDocKey(space_id)
              form == lastReq'.form
          IN /\ record'[key].exists
             /\ \A d \in Domains :
                   IF FormField(d) \in DOMAIN form
                   THEN record'[key].data[d] = HandleInputs(d, form[FormField(d)]).list
                   ELSE /\ record'[key].data[d] = <<>>
                        /\ \A item \in FieldSet(record[key], d) :
                              /\ <<d, item>> \in lastReq'.removals
                              /\ ~Listed(inv', d, item, space_id)]_vars

\* a submission without one of the fields was handled for a space whose record
\* held identifiers in that field: the field is now empty, another is not
WholesaleReplaceWitness ==
    /\ lastReq.handler = "submitDialog"
    /\ lastReq.prior.exists
    /\ \E d, e \in Domains :
          /\ FormField(d) \notin DOMAIN lastReq.form
          /\ lastReq.prior.data[d] # <<>>
          /\ record[SpaceDocKey(lastReq.space)].data[d] = <<>>
          /\ lastReq.prior.data[e] = <<>>
          /\ record[SpaceDocKey(lastReq.space)].data[e] # <<>>

----------------------------------------------------------------------------
(* The publishes of an invocation *)

\* C26 (run blocks on publishes) as stated: an invocation that has returned has
\* no publish that is not done.
RunBlocksOnPublishes == outbox.pc = "returned" => outbox.pending = 0

----------------------------------------------------------------------------
(* The unsubscribe calls *)

\* C27 (removal is idempotent and tolerant): an unsubscribe call for a space
\* that the item's inverted document does not list, or for an item without an
\* inverted document, changes no document; every unsubscribe call leaves the
\* other spaces of the list, the other documents and the other calls of the
\* request as they are, and a second run of it would change nothing more.
RemovalTolerant ==
    [][\A i \in 1..Len(threads) :
          (threads[i].op = "unsubscribe" /\ threads[i].pc = "update" /\ threads'[i].pc = "done") =>
              LET d == threads[i].d
                  key == ItemDocKey(d, threads[i].item)
                  space_id == threads[i].space
              IN /\ ~Listed(inv, d, threads[i].item, space_id) => inv' = inv
                 /\ ~Listed(inv', d, threads[i].item, space_id)
                 /\ inv'[d][key].exists = inv[d][key].exists
                 /\ inv[d][key].exists =>
                       Range(inv'[d][key].spaces_subscribed) =
                           Range(inv[d][key].spaces_subscribed) \ {space_id}
                 /\ \A e \in Domains : \A k \in ItemDocKeys(e) :
                       <<e, k>> # <<d, key>> => inv'[e][k] = inv[e][k]
                 /\ \A j \in 1..Len(threads) : j # i => threads'[j] = threads[j]
                 /\ unsubscribe_space_product(inv'[d][key], space_id) = inv'[d][key]]_vars

\* the same unsubscribe has run twice for an item that has no inverted document
RemovalTolerantWitness ==
    \E i, j \in 1..Len(threads) :
        /\ i # j
        /\ threads[i].op = "unsubscribe" /\ threads[j].op = "unsubscribe"
        /\ threads[i].pc = "done" /\ threads[j].pc = "done"
        /\ threads[i].d = threads[j].d /\ threads[i].item = threads[j].item
        /\ threads[i].space = threads[j].space
        /\ ~inv[threads[i].d][ItemDocKey(threads[i].d, threads[i].item)].exists

----------------------------------------------------------------------------
(* The Libraries sections of a note *)

\* the note from position i on with every section headed "Libraries", header and
\* body up to the next <h3> element or the end, replaced by a bare
\* "Libraries Updated" header
RECURSIVE LibrariesReplaced(_, _)
LibrariesReplaced(html, i) ==
    IF i > Len(html) THEN <<>>
    ELSE IF html[i] = "<h3>Libraries</h3>"
    THEN <<"<h3>Libraries Updated</h3>">>
         \o LibrariesReplaced(html, IF NextHeader(html, i) = 0 THEN Len(html) + 1
                                    ELSE NextHeader(html, i))
    ELSE <<html[i]>> \o LibrariesReplaced(html, i + 1)

\* the note without the newlines that directly follow a "Libraries Updated" header
RECURSIVE HeaderNewlinesDropped(_, _)
HeaderNewlinesDropped(html, i) ==
    IF i > Len(html) THEN <<>>
    ELSE IF html[i] = "\n" /\ i > 1 /\ html[i - 1] = "<h3>Libraries Updated</h3>"
    THEN HeaderNewlinesDropped(html, i + 1)
    ELSE <<html[i]>> \o HeaderNewlinesDropped(html, i + 1)

\* C28 (remove_libraries): the note a run works on is the content of today's entry
\* with every section headed "Libraries" replaced by a bare "Libraries Updated"
\* header (a newline behind the new header apart), the other sections unchanged
\* and in their order; a content without such a section is taken as it is.
LibrariesRemoved ==
    lastNotes.fetched # <<>> =>
        /\ HeaderNewlinesDropped(lastNotes.fetched, 1) =
              HeaderNewlinesDropped(LibrariesReplaced(lastNotes.content, 1), 1)
        /\ (\A i \in 1..Len(lastNotes.content) : lastNotes.content[i] # "<h3>Libraries</h3>") =>
              lastNotes.fetched = lastNotes.content

----------------------------------------------------------------------------
(* The events chat_app has no branch for *)

\* C29 (unrecognized inbound chat event): an event with none of the known keys, a
\* slash command with an unknown command id and a button click with an unknown
\* action name reach the "unexpected state" print, and the request that gets
\* there changes no subscription record and no inverted entry.
UnrecognizedEventInert ==
    /\ \A event \in ChatEvents :
          (\/ event.payload = "none"
           \/ event.payload = "appCommandPayload" /\ event.id = "unknown"
           \/ event.payload = "buttonClickedPayload" /\ event.id = "unknown") =>
              chat_app(event) = "unexpected"
    /\ [][(requests' # requests /\ lastReq'.handler = "unexpected") =>
              record' = record /\ inv' = inv]_vars

\* a button click with an unknown action name came from a space that has a record
UnrecognizedEventInertWitness ==
    /\ lastReq.handler = "unexpected"
    /\ lastReq.payload = "buttonClickedPayload"
    /\ lastReq.prior.exists
    /\ record[SpaceDocKey(lastReq.space)] = lastReq.prior
    /\ \E d \in Domains : FieldSet(lastReq.prior, d) # {}

----------------------------------------------------------------------------
(* The two sides of the ledger *)

----------------------------------------------------------------------------
(* Two spaces on one inverted entry *)

\* C31 (cross-space isolation under concurrency) as stated: when a record_space_*
\* call of one space and a call of another space on the same item are the only
\* calls on that item and both have finished, the other space is listed if its
\* call was an addition and not listed if it was a removal, and the space of an
\* addition is listed.
CrossSpaceIsolation ==
    \A i, j \in 1..Len(threads) :
        (/\ i # j
         /\ threads[i].op = "record"
         /\ threads[i].pc = "done" /\ threads[j].pc = "done"
         /\ threads[i].d = threads[j].d /\ threads[i].item = threads[j].item
         /\ threads[i].space # threads[j].space
         /\ \A k \in 1..Len(threads) :
               (threads[k].d = threads[i].d /\ threads[k].item = threads[i].item) => k \in {i, j})
        => /\ Listed(inv, threads[i].d, threads[i].item, threads[i].space)
           /\ threads[j].op = "record" =>
                 Listed(inv, threads[j].d, threads[j].item, threads[j].space)
           /\ threads[j].op = "unsubscribe" =>
                 ~Listed(inv, threads[j].d, threads[j].item, threads[j].space)

----------------------------------------------------------------------------
(* The steps of a submission *)

\* the record_space_* calls in flight or finished, as (field, identifier)
Records(calls) ==
    {<<calls[k].d, calls[k].item>> : k \in {j \in 1..Len(calls) : calls[j].op = "record"}}

\* prior minus new of the submission in progress, over the record as it is
PriorMinusNew ==
    UNION {{<<d, item>> : item \in FieldSet(record[SpaceDocKey(lastReq.space)], d)
                                    \ NewSet(lastReq.form, d)} : d \in Domains}

\* C32 (submission step order) as stated: when the additions of a submission are
\* issued, its removals have been issued; and the record is overwritten only
\* when all removals and all additions have finished.
RemovalsBeforeAdditions ==
    /\ [](lastReq.handler = "submitDialog" /\ Records(threads) # {} =>
             PriorMinusNew \subseteq Unsubscribes(threads) \/ response = Message("submitted"))
    /\ [][record' # record =>
             /\ \A i \in 1..Len(threads) : threads[i].pc = "done"
             /\ Records(threads) = UNION {{<<d, item>> : item \in NewSet(lastReq.form, d)} : d \in Domains}
             /\ Unsubscribes(threads) = lastReq.removals]_vars

\* C32 as amended: a submission issues its additions first, one per new
\* identifier; it issues its removals, one per identifier of prior minus new,
\* only when every addition has finished; and it overwrites the record only
\* when all additions and all removals have finished.
AdditionsBeforeRemovals ==
    /\ [][requests' # requests =>
             /\ Records(threads') = UNION {{<<d, item>> : item \in NewSet(lastReq'.form, d)} : d \in Domains}
             /\ Unsubscribes(threads') = {}
             /\ record' = record /\ inv' = inv]_vars
    /\ [][(requests' = requests /\ Unsubscribes(threads') # Unsubscribes(threads)) =>
             /\ \A i \in 1..Len(threads) : threads[i].op = "record" /\ threads[i].pc = "done"
             /\ Unsubscribes(threads') = PriorMinusNew
             /\ Records(threads') = Records(threads)
             /\ record' = record /\ inv' = inv]_vars
    /\ [][record' # record =>
             /\ response = Unsubscribing /\ response' = Message("submitted")
             /\ \A i \in 1..Len(threads) : threads[i].pc = "done"
             /\ Records(threads) = UNION {{<<d, item>> : item \in NewSet(lastReq.form, d)} : d \in Domains}
             /\ Unsubscribes(threads) = lastReq.removals]_vars

\* a submission that added some identifiers and removed others has set the record
AdditionsBeforeRemovalsWitness ==
    /\ lastReq.handler = "submitDialog" /\ response = Message("submitted")
    /\ Records(threads) # {} /\ Unsubscribes(threads) # {}
    /\ \A i \in 1..Len(threads) : threads[i].pc = "done"
    /\ record[SpaceDocKey(lastReq.space)] = SpaceDoc(SubmittedLists(lastReq.form))

----------------------------------------------------------------------------
(* The polls after a space has left *)

\* C33 (no notification after removal) as stated: a run of a poller that starts
\* after the removal of a space has answered, none of the removal's calls having
\* raised and the space having submitted nothing since, publishes no message for
\* that space.
NoNotificationAfterRemoval ==
    [][(/\ lastNotes' # lastNotes
        /\ lastReq.handler = "removedFromSpace"
        /\ lastReq.prior.exists
        /\ response = Message("Done"))
       => lastReq.space \notin Range(lastNotes'.sent)]_vars

----------------------------------------------------------------------------
(* The two ways to the dialog *)

\* C36 (both ways of opening the dialog agree) as stated: the lists of a dialog,
\* whether a button click or the subscribe command opened it, are the resolution
\* of the space's record, and the dialog carries no error.
BothWaysAgree ==
    lastReq.handler = "openInitialDialog" =>
        /\ response.lists =
              openInitialDialog([payload |-> "appCommandPayload", space |-> lastReq.space],
                                record).lists
        /\ response.error = ""

----------------------------------------------------------------------------
(* The dialog and the submission that follows it *)

\* the entries a dialog shows as selected, as (field, identifier)
Shown(dialog) ==
    UNION {{<<d, dialog.lists[d][k].text>> :
               k \in {j \in 1..Len(dialog.lists[d]) : dialog.lists[d][j].selected}} :
           d \in Domains}

\* C34 (dialog round trip) as stated: when a space with a record opens the dialog
\* and then submits exactly the entries the dialog shows as selected, the
\* submission issues no removals and leaves the record and every inverted entry
\* as they were.
DialogRoundTrip ==
    [][(/\ requests' # requests
        /\ lastReq.handler = "openInitialDialog"
        /\ record[SpaceDocKey(lastReq.space)].exists
        /\ lastReq'.handler = "submitDialog"
        /\ lastReq'.space = lastReq.space
        /\ lastReq'.form = FormOf(Shown(response)))
       => /\ lastReq'.removals = {}
          /\ record' = record
          /\ inv' = inv]_vars

----------------------------------------------------------------------------
(* The same selection submitted again *)

\* C35 (idempotent submission): a submission that follows a submission of the
\* same selection by the same space issues no removals and leaves the record and
\* every inverted entry as the first one left them.
IdempotentSubmission ==
    [][(/\ requests' # requests
        /\ lastReq.handler = "submitDialog"
        /\ lastReq'.handler = "submitDialog"
        /\ lastReq'.space = lastReq.space
        /\ lastReq'.form = lastReq.form)
       => /\ lastReq'.removals = {}
          /\ record' = record
          /\ inv' = inv]_vars

\* a selection with a ticked entry was submitted over the record that the same
\* selection leaves, as the second request
IdempotentSubmissionWitness ==
    /\ requests = MaxRequests
    /\ lastReq.handler = "submitDialog"
    /\ lastReq.form # NoForm
    /\ lastReq.prior = SpaceDoc(SubmittedLists(lastReq.form))
    /\ record[SpaceDocKey(lastReq.space)] = lastReq.prior
    /\ \A d \in Domains : \A item \in NewSet(lastReq.form, d) :
          Count(inv[d][ItemDocKey(d, item)].spaces_subscribed, lastReq.space) = 1

----------------------------------------------------------------------------
(* A note that has not changed *)

\* C37 (unchanged note is a no-op): an invocation that fetches, for a product
\* whose stored note has a body, a note whose text is the text of the stored
\* one, writes nothing to the stored note and publishes no message for the
\* product.
UnchangedNoteNoOp ==
    [][(/\ releaseNotes[NotesProduct] # <<>>
        /\ lastNotes'.fetched # <<>>
        /\ get_text(lastNotes'.fetched) = get_text(releaseNotes[NotesProduct]))
       => /\ lastNotes'.status = "done"
          /\ ~lastNotes'.saved
          /\ releaseNotes' = releaseNotes
          /\ ~lastNotes'.new
          /\ lastNotes'.sent = <<>>]_vars

\* an invocation has fetched the note that is stored, for a product with
\* subscribers, and has left it alone
UnchangedNoteNoOpWitness ==
    /\ lastNotes.status = "done"
    /\ lastNotes.existed /\ ~lastNotes.saved
    /\ lastNotes.fetched # <<>>
    /\ releaseNotes[NotesProduct] = lastNotes.fetched
    /\ lastNotes.sent = <<>>
    /\ GetItemDoc(inv, "products_subscribed",
                  ItemDocKey("products_subscribed", NotesProduct)).spaces_subscribed # <<>>

----------------------------------------------------------------------------
(* What a changed note adds *)

\* C38 (added content is always surfaced) as stated: an invocation that fetches,
\* for a product with a stored note, a note with another text, publishes for
\* every subscriber a message whose html holds every piece of text of the fetched
\* note that the stored note does not hold, wherever in the note it stands.
AddedContentSurfaced ==
    [][(/\ releaseNotes[NotesProduct] # <<>>
        /\ lastNotes'.fetched # <<>>
        /\ isNewRelease(lastNotes'.fetched, releaseNotes[NotesProduct]))
       => \A text \in Range(get_text(lastNotes'.fetched))
                          \ Range(get_text(releaseNotes[NotesProduct])) :
             /\ lastNotes'.new
             /\ text \in Range(get_text(lastNotes'.html))
             /\ lastNotes'.sent =
                   GetItemDoc(inv, "products_subscribed",
                              ItemDocKey("products_subscribed", NotesProduct)).spaces_subscribed]_vars

----------------------------------------------------------------------------
(* The headers and the bodies of the diff *)

\* the position of the k-th <h3> element of the note
HeaderAt(html, k) ==
    CHOOSE i \in HeaderPositions(html) :
        Cardinality({j \in HeaderPositions(html) : j < i}) = k - 1

\* C39 (header/body pairing in the subsection diff) as stated: in an invocation
\* that diffs a fetched note against the stored one, the list of headers is as
\* long as the list of subsection bodies, its k-th entry is the <h3> element
\* that stands before the k-th body, and the diff does not end in an IndexError.
HeaderBodyPairing ==
    (lastNotes.existed /\ lastNotes.saved) =>
        LET headers == re_findall(lastNotes.fetched)
            bodies == Tail(re_split(lastNotes.fetched))
        IN /\ Len(headers) = Len(bodies)
           /\ \A k \in 1..Len(headers) :
                 headers[k] = <<lastNotes.fetched[HeaderAt(lastNotes.fetched, k)]>>
           /\ lastNotes.status # "raised"

====
